---- MODULE Spec2Model ----
(***************************************************************************)
(* Model of the MR72 radar to MAVLink bridge (src/mr72_mavlink.py), of its *)
(* parser test (src/test_mr72_parser.py), of the minimal bridge script     *)
(* (src/mr72_mavlink_minimal.py) and of the log download script            *)
(* (src/log_dwnld.py, LOG_REQUEST path).                                   *)
(*                                                                         *)
(* Bytes are the integers 0..255.  A bytes object is a sequence; Python's  *)
(* index i is index i+1 here (see At).                                     *)
(***************************************************************************)
EXTENDS Integers, Sequences, FiniteSets, TLC

VARIABLES
    \* ---- parser harness (test_mr72_parser.py calling MR72Radar.parse_frame)
    frame,          \* the bytes object handed to parse_frame
    result,         \* what parse_frame returned for it (Unparsed before the call)
    log,            \* the warning parse_frame logged ("" when none)
    test_case,      \* how the harness built the frame: [values, header, crc, length]
    \* ---- the radar's serial line and MR72Radar.read_frames (reader thread)
    scenario,       \* what the radar sends in this run: [kind, prefix, frames]
    stream,         \* bytes on the serial line that no read has returned yet
    buffer,         \* read_frames' local buffer
    rpc,            \* where the reader thread is: "idle" (not started), "read"
                    \* (at "while self.running"), "ser", "scan", "lock", "store",
                    \* "except", "done"
    parsed_data,    \* read_frames' local parsed_data
    latest_data,    \* MR72Radar.latest_data
    data_lock,      \* MR72Radar.data_lock: "free" or the thread holding it
    decodes,        \* history: the dicts stored into latest_data, in order
    held,           \* history: the bytes read_frames kept when it last found the
                    \* header with less than a frame after it, and the number of
                    \* frames extracted before: [bytes, n]
    emitted,        \* history: the 19-byte blocks handed to parse_frame, in order
    \* ---- MR72MAVLinkBridge.bridge_loop (sender thread) and the clock
    spc,            \* where the sender thread is
    radar_data,     \* bridge_loop's local radar_data
    sector_i,       \* position of the "for sector, orientation" loop (1..3)
    sent,           \* the messages handed to sock.sendto, in order
    now,            \* milliseconds slept so far by the sender thread
    ticks,          \* iterations of bridge_loop started so far
    snap,           \* history: Len(decodes) when radar_data was last copied
    clock_base,     \* time.time() when the bridge started, in whole seconds
    calls,          \* history: the calls of send_distance_sensor and of
                    \* send_obstacle_distance made by this iteration of bridge_loop
    \* ---- MR72MAVLinkBridge.stop (main thread), the devices and their failures
    mpc,            \* where the main thread is: the steps of start(), "run",
                    \* "failed" (start() returned False), the steps of stop()
    running,        \* MR72MAVLinkBridge.running
    radar_running,  \* MR72Radar.running
    ser_open,       \* MR72Radar.ser.is_open
    sock,           \* MAVLinkSender.sock: "open", "closed" (closed, still set), "none"
    faults,         \* I/O failures the devices will still produce in this run
    errlog,         \* logger.error calls so far, by place: [read, send, loop, serial]
    \* ---- the script mr72_mavlink_minimal.py and its serial line
    m_stream,       \* bytes on the script's serial line that no read has returned yet
    m_frame,        \* the script's frame (what ser.read(19) returned last)
    m_pc,           \* where the script is: "wait_heartbeat", "read", "send", "sleep"
    m_heartbeat,    \* whether the flight controller sends HEARTBEAT messages
    m_sent,         \* the messages handed to mav.mav.distance_sensor_send, in order
    m_loops,        \* iterations of the script's "while True" started so far
    \* ---- the script log_dwnld.py (LOG_REQUEST path) and the flight controller
    l_fc,           \* the logs the flight controller holds: log id -> size in bytes
    l_exists,       \* the log ids whose out_file exists before the run
    l_pc,           \* where main is: "list", "for", "while", "recv", "erase",
                    \* "returned"
    l_logs,         \* main's logs, the dict request_log_list returned
    l_todo,         \* the log ids the "for log_id in sorted(logs)" loop has left
    l_id,           \* download_log's log_id
    l_ofs,          \* download_log's ofs
    l_file,         \* bytes written to each log's out_file in this run (-1: not opened)
    l_erased,       \* MAV_CMD_LOG_ERASE commands sent so far
    l_noise,        \* time-outs and foreign LOG_DATA messages still to come
    l_msg,          \* what download_log's last recv_match returned
    l_writes,       \* the fh.write calls of this run that wrote bytes, in
                    \* order: [id, ofs, count, at], at being the file's length
                    \* before the write
    \* ---- the sender thread inside MAVLinkSender.send_message
    pending,        \* "none": not inside it; "checked": "if self.sock:" was
                    \* true; "loaded": self.sock.sendto was looked up and the
                    \* call itself is still to come
    \* ---- webcam.py: the recording worker thread and the event loop
    recording_running,  \* the global recording_running
    current_recording,  \* the global current_recording: None or a VideoRecorder
                        \* (numbered in the order of their creation)
    w_pc,           \* where recording_worker is: "while", "new", "record",
                    \* "finish", "dead" (the function has returned)
    h_pc,           \* where the event loop is: "idle", "stop" (a stop action
                    \* has set the flag), "shutdown", "down" (on_shutdown is over)
    recorders,      \* VideoRecorder objects created so far
    started,        \* the recorders whose start() opened their file
    released,       \* the recorders whose stop() released their file
    w_mark          \* the number of files started when the last stop action or
                    \* shutdown had cleared current_recording

pvars == <<frame, result, log, test_case>>
rvars == <<scenario, stream, buffer, rpc, parsed_data, latest_data, decodes,
          held, emitted>>
svars == <<spc, radar_data, sector_i, sent, now, ticks, snap, clock_base, calls>>
mvars == <<mpc, running, radar_running, ser_open, sock>>
fvars == <<faults, errlog>>
minvars == <<m_stream, m_frame, m_pc, m_heartbeat, m_sent, m_loops>>
lvars == <<l_fc, l_exists, l_pc, l_logs, l_todo, l_id, l_ofs, l_file, l_erased, l_noise>>
cvars == <<pending>>
dvars == <<l_msg, l_writes>>
wvars == <<recording_running, current_recording, w_pc, h_pc, recorders, started,
          released, w_mark>>
vars == <<frame, result, log, test_case, scenario, stream, buffer, rpc,
          parsed_data, latest_data, data_lock, decodes, held, emitted, spc,
          radar_data,
          sector_i, sent, now, ticks, snap, clock_base, calls,
          mpc, running, radar_running, ser_open, sock, faults, errlog,
          m_stream, m_frame, m_pc, m_heartbeat, m_sent, m_loops,
          l_fc, l_exists, l_pc, l_logs, l_todo, l_id, l_ofs, l_file, l_erased,
          l_noise, l_msg, l_writes, pending, recording_running,
          current_recording, w_pc, h_pc, recorders, started, released, w_mark>>

\* ------------------------------------------------------------------ values

\* Python's None where an Optional[int] is expected (no 16-bit value is negative).
None == -1
\* Python's None where an Optional[dict] is expected.
NoneDict == [none |-> TRUE]
\* The harness has not called parse_frame yet.
Unparsed == [unparsed |-> TRUE]
\* self.latest_data = {}
EmptyDict == <<>>

Byte == 0..255

\* ------------------------------------------------------------ bit operators

RECURSIVE BitXor(_, _)
BitXor(a, b) ==
    IF a = 0 THEN b
    ELSE IF b = 0 THEN a
    ELSE ((a + b) % 2) + 2 * BitXor(a \div 2, b \div 2)

RECURSIVE BitAnd(_, _)
BitAnd(a, b) ==
    IF a = 0 \/ b = 0 THEN 0
    ELSE ((a % 2) * (b % 2)) + 2 * BitAnd(a \div 2, b \div 2)

RECURSIVE BitOr(_, _)
BitOr(a, b) ==
    IF a = 0 THEN b
    ELSE IF b = 0 THEN a
    ELSE (IF a % 2 = 1 \/ b % 2 = 1 THEN 1 ELSE 0) + 2 * BitOr(a \div 2, b \div 2)

\* frame[i] for a Python index i
At(bytes, i) == bytes[i + 1]

\* ------------------------------------------------------- MR72Radar constants

HEADER == <<84, 72>>          \* bytes([0x54, 0x48])
FRAME_LENGTH == 19

\* self.SECTORS: sector name -> index of its high byte, in the dict's order
SectorOrder ==
    <<"sector1", "sector2", "sector3", "obstacle_90", "obstacle_135",
      "obstacle_180", "obstacle_225", "obstacle_270">>
SectorNames == {SectorOrder[i] : i \in 1..Len(SectorOrder)}
\* faulty variant: the sectors laid out in the order of their names
SECTORS_InNameOrder ==
    [s \in SectorNames |->
        CASE s = "sector1" -> 2
          [] s = "sector2" -> 4
          [] s = "sector3" -> 6
          [] s = "obstacle_90" -> 8
          [] s = "obstacle_135" -> 10
          [] s = "obstacle_180" -> 12
          [] s = "obstacle_225" -> 14
          [] s = "obstacle_270" -> 16]

SECTORS ==
    [s \in SectorNames |->
        CASE s = "sector1" -> 16
          [] s = "sector2" -> 2
          [] s = "sector3" -> 4
          [] s = "obstacle_90" -> 6
          [] s = "obstacle_135" -> 8
          [] s = "obstacle_180" -> 10
          [] s = "obstacle_225" -> 12
          [] s = "obstacle_270" -> 14]

\* ------------------------------------------------------------- crc8_calc

\* one pass of "for _ in range(8)": shift left, xor 0x31 when bit 7 was set
crc8_shift(crc) ==
    IF BitAnd(crc, 128) # 0
    THEN BitAnd(BitXor(crc * 2, 49), 255)
    ELSE BitAnd(crc * 2, 255)

RECURSIVE crc8_shifts(_, _)
crc8_shifts(crc, n) == IF n = 0 THEN crc ELSE crc8_shifts(crc8_shift(crc), n - 1)

\* the eight shifts of every byte value, computed once
crc8_table == [c \in Byte |-> crc8_shifts(c, 8)]

\* crc ^ byte of every pair of byte values, computed once
crc8_xor == [c \in Byte |-> [b \in Byte |-> BitXor(c, b)]]

\* the body of "for byte in ...": crc ^= byte, then the eight shifts
crc8_byte(crc, byte) == crc8_table[crc8_xor[crc][byte]]

\* the loop over the first n bytes, crc starting at 0
RECURSIVE crc8_loop(_, _)
crc8_loop(bytes, n) ==
    IF n = 0 THEN 0 ELSE crc8_byte(crc8_loop(bytes, n - 1), bytes[n])

\* faulty variant: the loop runs over the CRC byte too
crc8_calc_AllBytes(data) == crc8_loop(data, Len(data))

\* MR72Radar.crc8_calc: data[:-1] leaves out the last byte (and is empty for
\* an empty argument)
crc8_calc(data) == crc8_loop(data, IF Len(data) = 0 THEN 0 ELSE Len(data) - 1)

\* ------------------------------------------------------------ parse_frame

\* mr72.py parse_sectors: (sector1, sector2, sector3) of a 19-byte block
parse_sectors(fr) ==
    LET parse_distance(msb, lsb) ==
            LET val == BitOr(msb * 256, lsb)
            IN  IF val = 65535 THEN None ELSE val
    IN  <<parse_distance(At(fr, 16), At(fr, 17)),
          parse_distance(At(fr, 2), At(fr, 3)),
          parse_distance(At(fr, 4), At(fr, 5))>>

\* faulty variant: no check for 0xFFFF
parse_sector_distance_NoSentinel(fr, msb_index, lsb_index) ==
    IF Len(fr) < (IF msb_index > lsb_index THEN msb_index ELSE lsb_index) + 1
    THEN None
    ELSE BitOr(At(fr, msb_index) * 256, At(fr, lsb_index))

parse_sector_distance(fr, msb_index, lsb_index) ==
    IF Len(fr) < (IF msb_index > lsb_index THEN msb_index ELSE lsb_index) + 1
    THEN None
    ELSE LET distance == BitOr(At(fr, msb_index) * 256, At(fr, lsb_index))
         IN  IF distance = 65535 THEN None ELSE distance

\* faulty variant: the header is not checked
parse_frame_log_NoHeaderCheck(fr) ==
    IF Len(fr) # FRAME_LENGTH THEN "Invalid frame length"
    ELSE IF crc8_calc(fr) # fr[Len(fr)] THEN "CRC mismatch"
    ELSE ""

\* The warning parse_frame logs, in the order of its checks; "" when the
\* frame passes them all.
parse_frame_log(fr) ==
    IF Len(fr) # FRAME_LENGTH THEN "Invalid frame length"
    ELSE IF SubSeq(fr, 1, 2) # HEADER THEN "Invalid header"
    ELSE IF crc8_calc(fr) # fr[Len(fr)] THEN "CRC mismatch"
    ELSE ""

parse_frame(fr) ==
    IF parse_frame_log(fr) # "" THEN NoneDict
    ELSE [s \in SectorNames |->
            parse_sector_distance(fr, SECTORS[s], SECTORS[s] + 1)]

\* ------------------------------------------------ test_mr72_parser.py harness

\* struct.pack('>H', v)
pack_be16(v) == <<v \div 256, v % 256>>

\* The test's own CRC loop (over every byte of data)
test_crc(data) == crc8_loop(data, Len(data))

\* create_test_frame for distances d = <<d1, ..., d8>> (frame order: sector2,
\* sector3, 90, 135, 180, 225, 270, sector1) behind header h
RECURSIVE pack_all(_, _)
pack_all(d, n) == IF n = 0 THEN <<>> ELSE pack_all(d, n - 1) \o pack_be16(d[n])

frame_data(h, d) == h \o pack_all(d, Len(d))
create_test_frame(h, d) == frame_data(h, d) \o <<test_crc(frame_data(h, d))>>

\* the distances of create_test_frame, d1..d8
TestValues == <<1500, 2000, 1200, 1800, 2500, 3000, 2200, 1000>>
\* further values a sector field is drawn from: no reading, a value whose
\* low byte alone is 0xFF, zero, and the header's two bytes
ExtraValues == <<65535, 255, 0, 21576>>
NumExtra == 2
SectorChoices(i) == {TestValues[i]} \cup {ExtraValues[k] : k \in 1..NumExtra}
ValueVectors ==
    {<<d1, d2, d3, d4, d5, d6, d7, d8>> :
        d1 \in SectorChoices(1), d2 \in SectorChoices(2), d3 \in SectorChoices(3),
        d4 \in SectorChoices(4), d5 \in SectorChoices(5), d6 \in SectorChoices(6),
        d7 \in SectorChoices(7), d8 \in SectorChoices(8)}

\* test_invalid_frames: all-zero fields (tests 1 and 2), all 0xFFFF (test 3)
ZeroValues == <<0, 0, 0, 0, 0, 0, 0, 0>>
InvalidValues == <<65535, 65535, 65535, 65535, 65535, 65535, 65535, 65535>>
\* the right header, the test's wrong header, and headers wrong in one byte
Headers == {HEADER, <<65, 66>>, <<84, 0>>, <<0, 72>>}
\* lengths of the bytes objects handed to parse_frame (12: the test's short frame)
Lengths == {0, 1, 2, 12, 18, 19, 20}

\* The frames the harness hands to parse_frame: every choice of sector
\* values behind the right header, and a few value vectors under every
\* header and length; the last byte is the CRC-8 of the data or 0x00.
TestCases ==
    [values : ValueVectors, header : {HEADER}, crc : {"crc8", "zero"},
     length : {FRAME_LENGTH}]
    \cup
    [values : {TestValues, ZeroValues, InvalidValues}, header : Headers,
     crc : {"crc8", "zero"}, length : Lengths]

BuildFrame(tc) ==
    LET full == IF tc.crc = "crc8" THEN create_test_frame(tc.header, tc.values)
                ELSE frame_data(tc.header, tc.values) \o <<0>>
    IN  IF tc.length > Len(full) THEN full \o <<0>>
        ELSE SubSeq(full, 1, tc.length)

\* ------------------------------------------------- MR72Radar.read_frames

READ_SIZE == 64               \* self.ser.read(64)

Min(a, b) == IF a < b THEN a ELSE b
Drop(bytes, n) == SubSeq(bytes, n + 1, Len(bytes))
Take(bytes, n) == SubSeq(bytes, 1, n)

\* bytes.find(HEADER): the lowest Python index where HEADER starts, or -1
Find(bytes) ==
    LET hits == {i \in 1..(Len(bytes) - 1) :
                    bytes[i] = HEADER[1] /\ bytes[i + 1] = HEADER[2]}
    IN  IF hits = {} THEN -1
        ELSE (CHOOSE i \in hits : \A j \in hits : i <= j) - 1

\* faulty variant: "if parsed_data:" is not asked
Truthy_Always(d) == TRUE

\* Python's truth value of parse_frame's return value
Truthy(d) == d # NoneDict /\ d # EmptyDict

\* logger.error was called at one more place
Logged(place) == [errlog EXCEPT ![place] = @ + 1]

\* "while self.running:" of read_frames
R_Loop ==
    /\ rpc = "read"
    /\ rpc' = IF radar_running THEN "ser" ELSE "done"
    /\ UNCHANGED <<held, emitted>>
    /\ UNCHANGED <<scenario, stream, buffer, parsed_data, latest_data, data_lock,
                   decodes>>
    /\ UNCHANGED <<pvars, lvars, cvars, dvars, wvars, minvars, svars, mvars, fvars>>

\* if not self.ser or not self.ser.is_open: ...; time.sleep(1); continue
\* data = self.ser.read(64); if not data: continue; buffer += data.
\* The read returns the next n bytes of the line, 0 <= n <= 64 (an empty
\* read, after the time-out, goes back to the loop test).  When stop() has
\* closed the port the thread either sees it at the test of is_open or, past
\* the test already, gets an exception from the read.
R_Read ==
    /\ rpc = "ser"
    /\ IF ~ser_open
       THEN /\ \E seen \in BOOLEAN :
                 /\ rpc' = IF seen THEN "read" ELSE "except"
                 /\ errlog' = IF seen THEN Logged("serial") ELSE errlog
            /\ UNCHANGED <<buffer, stream>>
       ELSE /\ \E n \in 0..Min(READ_SIZE, Len(stream)) :
                 /\ buffer' = buffer \o Take(stream, n)
                 /\ stream' = Drop(stream, n)
                 /\ rpc' = IF n = 0 THEN "read" ELSE "scan"
            /\ UNCHANGED errlog
    /\ UNCHANGED <<held, emitted>>
    /\ UNCHANGED <<scenario, parsed_data, latest_data, data_lock, decodes, faults>>
    /\ UNCHANGED <<pvars, lvars, cvars, dvars, wvars, minvars, svars, mvars>>

\* self.ser.read(64) raises (a transient failure of the serial device)
R_ReadError ==
    /\ rpc = "ser"
    /\ ser_open
    /\ faults > 0
    /\ faults' = faults - 1
    /\ rpc' = "except"
    /\ UNCHANGED <<held, emitted>>
    /\ UNCHANGED <<scenario, stream, buffer, parsed_data, latest_data, data_lock,
                   decodes, errlog>>
    /\ UNCHANGED <<pvars, lvars, cvars, dvars, wvars, minvars, svars, mvars>>

\* faulty variant: the exception ends read_frames
R_Except_Ends ==
    /\ rpc = "except"
    /\ errlog' = Logged("read")
    /\ rpc' = "done"
    /\ UNCHANGED <<held, emitted>>
    /\ UNCHANGED <<scenario, stream, buffer, parsed_data, latest_data, data_lock,
                   decodes, faults>>
    /\ UNCHANGED <<pvars, lvars, cvars, dvars, wvars, minvars, svars, mvars>>

\* except Exception as e: logger.error(...); time.sleep(0.1)
R_Except ==
    /\ rpc = "except"
    /\ errlog' = Logged("read")
    /\ rpc' = "read"
    /\ UNCHANGED <<held, emitted>>
    /\ UNCHANGED <<scenario, stream, buffer, parsed_data, latest_data, data_lock,
                   decodes, faults>>
    /\ UNCHANGED <<pvars, lvars, cvars, dvars, wvars, minvars, svars, mvars>>

\* faulty variant: a buffer without a header is kept
R_Scan_KeepsGarbage ==
    /\ rpc = "scan"
    /\ UNCHANGED <<scenario, stream, latest_data, data_lock, decodes>>
    /\ UNCHANGED <<pvars, lvars, cvars, dvars, wvars, minvars, svars, mvars, fvars>>
    /\ IF Len(buffer) < FRAME_LENGTH
       THEN /\ rpc' = "read"
            /\ UNCHANGED <<buffer, parsed_data, held, emitted>>
       ELSE LET header_pos == Find(buffer)
                trimmed == IF header_pos > 0 THEN Drop(buffer, header_pos)
                           ELSE buffer
            IN  IF header_pos = -1
                THEN /\ rpc' = "read"
                     /\ UNCHANGED <<buffer, parsed_data, held, emitted>>
                ELSE IF Len(trimmed) < FRAME_LENGTH
                THEN /\ buffer' = trimmed
                     /\ rpc' = "read"
                     /\ held' = [bytes |-> trimmed, n |-> Len(emitted)]
                     /\ UNCHANGED <<parsed_data, emitted>>
                ELSE LET parsed == parse_frame(Take(trimmed, FRAME_LENGTH))
                     IN  /\ buffer' = Drop(trimmed, FRAME_LENGTH)
                         /\ parsed_data' = parsed
                         /\ emitted' = Append(emitted, Take(trimmed, FRAME_LENGTH))
                         /\ UNCHANGED held
                         /\ rpc' = IF Truthy(parsed) THEN "lock" ELSE "scan"

\* faulty variant: a header with less than a frame after it is discarded
\* with the rest of the buffer
R_Scan_DropsPartial ==
    /\ rpc = "scan"
    /\ UNCHANGED <<scenario, stream, latest_data, data_lock, decodes>>
    /\ UNCHANGED <<pvars, lvars, cvars, dvars, wvars, minvars, svars, mvars, fvars>>
    /\ IF Len(buffer) < FRAME_LENGTH
       THEN /\ rpc' = "read"
            /\ UNCHANGED <<buffer, parsed_data, held, emitted>>
       ELSE LET header_pos == Find(buffer)
                trimmed == IF header_pos > 0 THEN Drop(buffer, header_pos)
                           ELSE buffer
            IN  IF header_pos = -1
                THEN /\ buffer' = <<>>
                     /\ rpc' = "read"
                     /\ UNCHANGED <<parsed_data, held, emitted>>
                ELSE IF Len(trimmed) < FRAME_LENGTH
                THEN /\ buffer' = <<>>
                     /\ rpc' = "read"
                     /\ held' = [bytes |-> trimmed, n |-> Len(emitted)]
                     /\ UNCHANGED <<parsed_data, emitted>>
                ELSE LET parsed == parse_frame(Take(trimmed, FRAME_LENGTH))
                     IN  /\ buffer' = Drop(trimmed, FRAME_LENGTH)
                         /\ parsed_data' = parsed
                         /\ emitted' = Append(emitted, Take(trimmed, FRAME_LENGTH))
                         /\ UNCHANGED held
                         /\ rpc' = IF Truthy(parsed) THEN "lock" ELSE "scan"

\* One pass of "while len(buffer) >= self.FRAME_LENGTH".
R_Scan ==
    /\ rpc = "scan"
    /\ UNCHANGED <<scenario, stream, latest_data, data_lock, decodes>>
    /\ UNCHANGED <<pvars, lvars, cvars, dvars, wvars, minvars, svars, mvars, fvars>>
    /\ IF Len(buffer) < FRAME_LENGTH
       THEN /\ rpc' = "read"
            /\ UNCHANGED <<buffer, parsed_data, held, emitted>>
       ELSE LET header_pos == Find(buffer)
                trimmed == IF header_pos > 0 THEN Drop(buffer, header_pos)
                           ELSE buffer
            IN  IF header_pos = -1
                THEN \* no header found, discard buffer
                     /\ buffer' = <<>>
                     /\ rpc' = "read"
                     /\ UNCHANGED <<parsed_data, held, emitted>>
                ELSE IF Len(trimmed) < FRAME_LENGTH
                THEN \* wait for the rest of the frame
                     /\ buffer' = trimmed
                     /\ rpc' = "read"
                     /\ held' = [bytes |-> trimmed, n |-> Len(emitted)]
                     /\ UNCHANGED <<parsed_data, emitted>>
                ELSE LET parsed == parse_frame(Take(trimmed, FRAME_LENGTH))
                     IN  /\ buffer' = Drop(trimmed, FRAME_LENGTH)
                         /\ parsed_data' = parsed
                         /\ emitted' = Append(emitted, Take(trimmed, FRAME_LENGTH))
                         /\ UNCHANGED held
                         /\ rpc' = IF Truthy(parsed) THEN "lock" ELSE "scan"

\* with self.data_lock:
R_Lock ==
    /\ rpc = "lock"
    /\ data_lock = "free"
    /\ data_lock' = "reader"
    /\ rpc' = "store"
    /\ UNCHANGED <<held, emitted>>
    /\ UNCHANGED <<scenario, stream, buffer, parsed_data, latest_data, decodes>>
    /\ UNCHANGED <<pvars, lvars, cvars, dvars, wvars, minvars, svars, mvars, fvars>>

\* faulty variant: the new values are merged into the dict in place, sector fields only
StoreLatest_Merge(old, new) ==
    IF old = EmptyDict THEN new
    ELSE [s \in SectorNames |->
            IF s \in {"sector1", "sector2", "sector3"} THEN new[s] ELSE old[s]]

\* faulty variant: a snapshot, once set, is not replaced
StoreLatest_KeepFirst(old, new) == IF old = EmptyDict THEN new ELSE old

\* self.latest_data = parsed_data
StoreLatest(old, new) == new

R_Store ==
    /\ rpc = "store"
    /\ latest_data' = StoreLatest(latest_data, parsed_data)
    /\ decodes' = Append(decodes, parsed_data)
    /\ data_lock' = "free"
    /\ rpc' = "scan"
    /\ UNCHANGED <<held, emitted>>
    /\ UNCHANGED <<scenario, stream, buffer, parsed_data>>
    /\ UNCHANGED <<pvars, lvars, cvars, dvars, wvars, minvars, svars, mvars, fvars>>

\* MR72Radar.get_latest_data's "return self.latest_data.copy()"
CopyOf(d) == d

\* --------------------------------------------------------- MAVLinkSender

MAVLINK_MSG_ID_DISTANCE_SENSOR == 132
MAVLINK_MSG_ID_OBSTACLE_DISTANCE == 330

\* struct.pack accepts v for a format character ('B', 'H', 'I').  Every
\* number held here as a plain integer is below 2^31, so 'I' only rules out
\* the negative ones; a time stamp is held as [s, ms] (see FitsTimeMs).
Fits(fmt, v) ==
    CASE fmt = "B" -> v \in 0..255
      [] fmt = "H" -> v \in 0..65535
      [] fmt = "I" -> v >= 0

\* A time stamp t = [s |-> whole seconds, ms |-> 0..999] stands for the
\* number of milliseconds 1000 * t.s + t.ms.
\* struct.pack('<I', int(time.time() * 1000)) accepts it: the number is at
\* most 4294967295 = 1000 * 4294967 + 295
FitsTimeMs(t) ==
    t.s >= 0 /\ (t.s < 4294967 \/ (t.s = 4294967 /\ t.ms <= 295))
\* struct.pack('<Q', int(time.time() * 1000000)) accepts it: 2^64 us are
\* more seconds than t.s can hold
FitsTimeUs(t) == t.s >= 0

\* create_mavlink_header: struct.pack('<BBBBBB', 0xFE, payload_length, 0,
\* SYSTEM_ID, COMPONENT_ID, msg_id) succeeds
HeaderPacks(msg_id, payload_length) ==
    /\ Fits("B", 254) /\ Fits("B", payload_length) /\ Fits("B", 0)
    /\ Fits("B", 1) /\ Fits("B", 1) /\ Fits("B", msg_id)

\* the DISTANCE_SENSOR payload of send_distance_sensor
DistanceSensorPayload(t_ms, distance_cm, sensor_type, orientation) ==
    [time_boot_ms |-> t_ms, min_distance |-> 0, max_distance |-> 10000,
     current_distance |-> distance_cm, type |-> sensor_type, id |-> 0,
     orientation |-> orientation, covariance |-> 0]

\* len(payload) for '<IIIIBBBB'
DistancePayloadLength == 4 * 4 + 4

\* send_distance_sensor: "skipped" (the early return), "struct.error" (a
\* field does not fit its format, the exception leaves the function) or
\* "sent" (the message reaches send_message)
send_distance_sensor(t_ms, distance_cm, sensor_type, orientation) ==
    IF distance_cm = None \/ distance_cm <= 0 THEN "skipped"
    ELSE IF ~ /\ FitsTimeMs(t_ms) /\ Fits("I", 0) /\ Fits("I", 10000)
              /\ Fits("I", distance_cm) /\ Fits("B", sensor_type)
              /\ Fits("B", 0) /\ Fits("B", orientation) /\ Fits("B", 0)
         THEN "struct.error"
    ELSE IF ~HeaderPacks(MAVLINK_MSG_ID_DISTANCE_SENSOR, DistancePayloadLength)
         THEN "struct.error"
    ELSE "sent"

\* the length of the OBSTACLE_DISTANCE payload: '<QBB', 72 times '<H', '<fHHfBB'
ObstaclePayloadLength == 10 + 72 * 2 + 14

\* send_obstacle_distance, for the list of 72 distances and the time stamp
send_obstacle_distance(t_us, distances) ==
    IF ~(FitsTimeUs(t_us) /\ Fits("B", 0)) THEN "struct.error"
    ELSE IF \E i \in 1..72 :
              ~Fits("H", IF i <= Len(distances) /\ distances[i] # None
                         THEN Min(distances[i], 65535) ELSE 65535)
         THEN "struct.error"
    ELSE IF ~(Fits("H", 0) /\ Fits("H", 10000) /\ Fits("B", 0)) THEN "struct.error"
    ELSE IF ~HeaderPacks(MAVLINK_MSG_ID_OBSTACLE_DISTANCE, ObstaclePayloadLength)
         THEN "struct.error"
    ELSE "sent"

\* ------------------------------------------ MR72MAVLinkBridge.bridge_loop

send_interval == 100          \* self.send_interval = 0.1, in milliseconds
error_sleep == 100            \* time.sleep(0.1) of the except branch
MaxTicks == 3                 \* iterations of bridge_loop that are explored
LongRun == 10                 \* the same, in the runs that last a second
TickLimit == IF scenario.kind = "long" THEN LongRun ELSE MaxTicks

\* sector_orientations, in the dict's order
OrientationOrder == <<"sector1", "sector2", "sector3">>
sector_orientations ==
    [s \in {"sector1", "sector2", "sector3"} |->
        CASE s = "sector1" -> 0 [] s = "sector2" -> 45 [] s = "sector3" -> -45]

\* sector_mappings: (start_angle, end_angle)
sector_mappings ==
    [s \in {"sector1", "sector2", "sector3"} |->
        CASE s = "sector1" -> <<0, 56>> [] s = "sector2" -> <<56, 112>>
          [] s = "sector3" -> <<112, 168>>]

HasReading(d, s) == s \in DOMAIN d /\ d[s] # None

\* obstacle_distances after the loop over sector_mappings (index i+1 holds
\* Python's obstacle_distances[i]); a later sector overwrites an earlier one
obstacle_distances(d) ==
    [i \in 1..72 |->
        LET covering == {k \in 1..3 :
                /\ HasReading(d, OrientationOrder[k])
                /\ (i - 1) >= sector_mappings[OrientationOrder[k]][1] \div 5
                /\ (i - 1) < Min(sector_mappings[OrientationOrder[k]][2] \div 5, 72)}
        IN  IF covering = {} THEN 65535
            ELSE d[OrientationOrder[CHOOSE k \in covering :
                                        \A j \in covering : j <= k]] \div 10]

\* time.time(), as a time stamp: clock_base seconds plus the time slept
TimeMs == [s |-> clock_base + now \div 1000, ms |-> now % 1000]

\* faulty variant: the message is handed to sendto whether or not there is a
\* socket, and the failure of a missing or closed socket goes unnoticed
send_message_NoSocketCheck(sk, f) ==
    IF f > 0 THEN {"ok", "OSError"} ELSE {"ok"}

\* send_message: what "if self.sock: try: self.sock.sendto(...)" can do.
\* "ok": the datagram is handed to the socket; "OSError": sendto raises (a
\* failure of the device, or the socket was closed by disconnect) and the
\* except clause logs it; "no_socket": self.sock is None, nothing is done.
send_message(sk, f) ==
    IF sk = "none" THEN {"no_socket"}
    ELSE IF sk = "closed" THEN {"OSError"}
    ELSE IF f > 0 THEN {"ok", "OSError"}
    ELSE {"ok"}

\* the outcomes of one send_* call: built is what the packing of the message
\* gives; a message that was built goes to send_message
SendOutcomes(built) ==
    IF built = "sent" THEN send_message(sock, faults) ELSE {built}

\* the effect of one outcome on the device and on the log
AfterSend(io) ==
    /\ faults' = IF io = "OSError" /\ sock = "open" THEN faults - 1 ELSE faults
    /\ errlog' = IF io = "OSError" THEN Logged("send") ELSE errlog

\* "while self.running:" of bridge_loop
S_Loop ==
    /\ spc = "get"
    /\ running => ticks < TickLimit
    /\ spc' = IF running THEN "lock" ELSE "done"
    /\ ticks' = IF running THEN ticks + 1 ELSE ticks
    /\ calls' = IF running THEN <<>> ELSE calls
    /\ UNCHANGED <<radar_data, sector_i, sent, now, snap, clock_base, data_lock>>
    /\ UNCHANGED <<pvars, lvars, cvars, dvars, wvars, minvars, rvars, mvars, fvars>>

\* the entry of get_latest_data's "with self.data_lock"
S_Lock ==
    /\ spc = "lock"
    /\ data_lock = "free"
    /\ data_lock' = "sender"
    /\ spc' = "copy"
    /\ UNCHANGED <<radar_data, sector_i, sent, now, ticks, snap, clock_base, calls>>
    /\ UNCHANGED <<pvars, lvars, cvars, dvars, wvars, minvars, rvars, mvars, fvars>>

\* radar_data = self.radar.get_latest_data(); if radar_data:
S_Copy ==
    /\ spc = "copy"
    /\ radar_data' = CopyOf(latest_data)
    /\ snap' = Len(decodes)
    /\ data_lock' = "free"
    /\ sector_i' = 1
    /\ spc' = IF radar_data' # EmptyDict THEN "sectors" ELSE "sleep"
    /\ UNCHANGED <<sent, now, ticks, clock_base, calls>>
    /\ UNCHANGED <<pvars, lvars, cvars, dvars, wvars, minvars, rvars, mvars, fvars>>

\* one pass of "for sector, orientation in sector_orientations.items()"
S_Sector ==
    /\ spc = "sectors"
    /\ LET sector == OrientationOrder[sector_i]
           orientation == sector_orientations[sector]
           distance_cm == radar_data[sector] \div 10
           built == IF HasReading(radar_data, sector)
                    THEN send_distance_sensor(TimeMs, distance_cm, 0, orientation)
                    ELSE "skipped"
       IN  \E io \in SendOutcomes(built) :
             /\ sent' = IF io = "ok"
                        THEN Append(sent,
                               [msg |-> "DISTANCE_SENSOR",
                                payload |-> DistanceSensorPayload(TimeMs, distance_cm,
                                                                  0, orientation),
                                sector |-> sector, at |-> now, tick |-> ticks,
                                snap |-> snap])
                        ELSE sent
             /\ calls' = IF HasReading(radar_data, sector)
                         THEN Append(calls,
                                [msg |-> "DISTANCE_SENSOR", sector |-> sector,
                                 distance_cm |-> distance_cm,
                                 orientation |-> orientation, outcome |-> io])
                         ELSE calls
             /\ AfterSend(io)
             /\ spc' = IF io = "struct.error" THEN "except"
                       ELSE IF sector_i = Len(OrientationOrder) THEN "obstacle"
                       ELSE "sectors"
             /\ sector_i' = IF io # "struct.error" /\ sector_i < Len(OrientationOrder)
                            THEN sector_i + 1 ELSE sector_i
    /\ UNCHANGED <<radar_data, now, ticks, snap, clock_base, data_lock>>
    /\ UNCHANGED <<pvars, lvars, cvars, dvars, wvars, minvars, rvars, mvars>>

\* ---- send_message of the sector loop, one step per evaluation: the test
\* "if self.sock:", the lookup of self.sock.sendto, and the call of sendto

\* what one finished send_distance_sensor call of the sector loop leaves
SectorCall(io) ==
    LET sector == OrientationOrder[sector_i]
        orientation == sector_orientations[sector]
        distance_cm == radar_data[sector] \div 10
    IN  /\ sent' = IF io = "ok"
                   THEN Append(sent,
                          [msg |-> "DISTANCE_SENSOR",
                           payload |-> DistanceSensorPayload(TimeMs, distance_cm,
                                                             0, orientation),
                           sector |-> sector, at |-> now, tick |-> ticks,
                           snap |-> snap])
                   ELSE sent
        /\ calls' = IF HasReading(radar_data, sector)
                    THEN Append(calls,
                           [msg |-> "DISTANCE_SENSOR", sector |-> sector,
                            distance_cm |-> distance_cm,
                            orientation |-> orientation, outcome |-> io])
                    ELSE calls
        /\ faults' = IF io = "OSError" /\ sock = "open" THEN faults - 1 ELSE faults
        /\ errlog' = IF io \in {"OSError", "AttributeError"}
                     THEN Logged("send") ELSE errlog
        /\ spc' = IF io = "struct.error" THEN "except"
                  ELSE IF sector_i = Len(OrientationOrder) THEN "obstacle"
                  ELSE "sectors"
        /\ sector_i' = IF io # "struct.error" /\ sector_i < Len(OrientationOrder)
                       THEN sector_i + 1 ELSE sector_i
        /\ pending' = "none"

\* one pass of the sector loop up to send_message's "if self.sock:"
S_SendCheck ==
    /\ spc = "sectors"
    /\ pending = "none"
    /\ LET sector == OrientationOrder[sector_i]
           built == IF HasReading(radar_data, sector)
                    THEN send_distance_sensor(TimeMs, radar_data[sector] \div 10, 0,
                                              sector_orientations[sector])
                    ELSE "skipped"
       IN  IF built # "sent" THEN SectorCall(built)
           ELSE IF sock = "none" THEN SectorCall("no_socket")
           ELSE /\ pending' = "checked"
                /\ UNCHANGED <<spc, sector_i, sent, calls, faults, errlog>>
    /\ UNCHANGED <<radar_data, now, ticks, snap, clock_base, data_lock>>
    /\ UNCHANGED <<pvars, lvars, dvars, wvars, minvars, rvars, mvars>>

\* faulty variant: the socket of the test is used, as it was at the test
S_SendLoad_Stale ==
    /\ pending = "checked"
    /\ SectorCall("ok")
    /\ UNCHANGED <<radar_data, now, ticks, snap, clock_base, data_lock>>
    /\ UNCHANGED <<pvars, lvars, dvars, wvars, minvars, rvars, mvars>>

\* the lookup of self.sock.sendto: self.sock is read again, and None has no
\* sendto (AttributeError, caught by send_message's except clause)
S_SendLoad ==
    /\ pending = "checked"
    /\ IF sock = "none" THEN SectorCall("AttributeError")
       ELSE /\ pending' = "loaded"
            /\ UNCHANGED <<spc, sector_i, sent, calls, faults, errlog>>
    /\ UNCHANGED <<radar_data, now, ticks, snap, clock_base, data_lock>>
    /\ UNCHANGED <<pvars, lvars, dvars, wvars, minvars, rvars, mvars>>

\* the call of sendto on the socket object: a closed socket (disconnect has
\* called close(), whether or not self.sock is None by now) raises OSError
S_SendTo ==
    /\ pending = "loaded"
    /\ \E io \in send_message(IF sock = "open" THEN "open" ELSE "closed", faults) :
          SectorCall(io)
    /\ UNCHANGED <<radar_data, now, ticks, snap, clock_base, data_lock>>
    /\ UNCHANGED <<pvars, lvars, dvars, wvars, minvars, rvars, mvars>>

\* the obstacle_distances array and self.mavlink.send_obstacle_distance(...)
S_Obstacle ==
    /\ spc = "obstacle"
    /\ LET built == send_obstacle_distance(TimeMs, obstacle_distances(radar_data))
       IN  \E io \in SendOutcomes(built) :
             /\ sent' = IF io = "ok"
                        THEN Append(sent,
                               [msg |-> "OBSTACLE_DISTANCE",
                                payload |-> obstacle_distances(radar_data),
                                sector |-> "all", at |-> now, tick |-> ticks,
                                snap |-> snap])
                        ELSE sent
             /\ calls' = Append(calls,
                           [msg |-> "OBSTACLE_DISTANCE", sector |-> "all",
                            distance_cm |-> None, orientation |-> 0,
                            outcome |-> io])
             /\ AfterSend(io)
             /\ spc' = IF io = "struct.error" THEN "except" ELSE "sleep"
    /\ UNCHANGED <<radar_data, sector_i, now, ticks, snap, clock_base, data_lock>>
    /\ UNCHANGED <<pvars, lvars, cvars, dvars, wvars, minvars, rvars, mvars>>

\* time.sleep(self.send_interval)
S_Sleep ==
    /\ spc = "sleep"
    /\ now' = now + send_interval
    /\ spc' = "get"
    /\ UNCHANGED <<radar_data, sector_i, sent, ticks, snap, clock_base, calls,
                   data_lock>>
    /\ UNCHANGED <<pvars, lvars, cvars, dvars, wvars, minvars, rvars, mvars, fvars>>

\* faulty variant: the except branch goes straight back to the loop
S_Except_NoSleep ==
    /\ spc = "except"
    /\ errlog' = Logged("loop")
    /\ spc' = "get"
    /\ UNCHANGED <<radar_data, sector_i, sent, now, ticks, snap, clock_base, calls,
                   data_lock, faults>>
    /\ UNCHANGED <<pvars, lvars, cvars, dvars, wvars, minvars, rvars, mvars>>

\* except Exception: logger.error(...); time.sleep(0.1)
S_Except ==
    /\ spc = "except"
    /\ errlog' = Logged("loop")
    /\ now' = now + error_sleep
    /\ spc' = "get"
    /\ UNCHANGED <<radar_data, sector_i, sent, ticks, snap, clock_base, calls,
                   data_lock, faults>>
    /\ UNCHANGED <<pvars, lvars, cvars, dvars, wvars, minvars, rvars, mvars>>

\* ------------------------------------ main thread: MR72MAVLinkBridge.start

\* MR72MAVLinkBridge.start calls self.radar.start(): open_serial() succeeds or
\* not (the port is the environment's); on success running is set and the
\* reader thread is started, on failure start() returns False
M_RadarStart ==
    /\ mpc = "start"
    /\ \E opened \in BOOLEAN :
          IF opened
          THEN /\ ser_open' = TRUE
               /\ radar_running' = TRUE
               /\ rpc' = "read"
               /\ mpc' = "connect"
          ELSE /\ mpc' = "failed"
               /\ UNCHANGED <<ser_open, radar_running, rpc>>
    /\ UNCHANGED <<running, sock>>
    /\ UNCHANGED <<held, emitted>>
    /\ UNCHANGED <<scenario, stream, buffer, parsed_data, latest_data, decodes>>
    /\ UNCHANGED <<pvars, lvars, cvars, dvars, wvars, minvars, svars, fvars, data_lock>>

\* then self.mavlink.connect(): socket.socket(...) succeeds or raises; on
\* failure start() returns False
M_Connect ==
    /\ mpc = "connect"
    /\ \E connected \in BOOLEAN :
          IF connected
          THEN /\ sock' = "open"
               /\ mpc' = "bridge_start"
          ELSE /\ mpc' = "failed"
               /\ UNCHANGED sock
    /\ UNCHANGED <<running, radar_running, ser_open>>
    /\ UNCHANGED <<pvars, lvars, cvars, dvars, wvars, minvars, rvars, svars, fvars, data_lock>>

\* then self.running = True and the sender thread is started; start()
\* returns True and main sleeps in "while True"
M_BridgeStart ==
    /\ mpc = "bridge_start"
    /\ running' = TRUE
    /\ spc' = "get"
    /\ mpc' = "run"
    /\ UNCHANGED <<radar_running, ser_open, sock>>
    /\ UNCHANGED <<radar_data, sector_i, sent, now, ticks, snap, clock_base, calls>>
    /\ UNCHANGED <<pvars, lvars, cvars, dvars, wvars, minvars, rvars, fvars, data_lock>>

\* start() returned False: main logs "Failed to start bridge" and its
\* "finally" calls bridge.stop()
M_StartFailed ==
    /\ mpc = "failed"
    /\ mpc' = "stop"
    /\ UNCHANGED <<running, radar_running, ser_open, sock>>
    /\ UNCHANGED <<pvars, lvars, cvars, dvars, wvars, minvars, rvars, svars, fvars, data_lock>>

\* ------------------------------------- main thread: MR72MAVLinkBridge.stop

\* KeyboardInterrupt in main's "while True: time.sleep(1)"; finally: bridge.stop()
M_Interrupt ==
    /\ mpc = "run"
    /\ mpc' = "stop"
    /\ UNCHANGED <<running, radar_running, ser_open, sock>>
    /\ UNCHANGED <<pvars, lvars, cvars, dvars, wvars, minvars, rvars, svars, fvars, data_lock>>

\* faulty variant: stop() does not stop the radar
M_BridgeStop_NoRadarStop ==
    /\ mpc = "stop"
    /\ running' = FALSE
    /\ mpc' = "disconnect"
    /\ UNCHANGED <<radar_running, ser_open, sock>>
    /\ UNCHANGED <<pvars, lvars, cvars, dvars, wvars, minvars, rvars, svars, fvars, data_lock>>

\* MR72MAVLinkBridge.stop: self.running = False, then self.radar.stop()
M_BridgeStop ==
    /\ mpc = "stop"
    /\ running' = FALSE
    /\ mpc' = "radar_stop"
    /\ UNCHANGED <<radar_running, ser_open, sock>>
    /\ UNCHANGED <<pvars, lvars, cvars, dvars, wvars, minvars, rvars, svars, fvars, data_lock>>

\* MR72Radar.stop: self.running = False, then self.close_serial()
M_RadarStop ==
    /\ mpc \in {"radar_stop", "close_serial"}
    /\ IF mpc = "radar_stop"
       THEN /\ radar_running' = FALSE
            /\ mpc' = "close_serial"
            /\ UNCHANGED ser_open
       ELSE /\ ser_open' = FALSE
            /\ mpc' = "disconnect"
            /\ UNCHANGED radar_running
    /\ UNCHANGED <<running, sock>>
    /\ UNCHANGED <<pvars, lvars, cvars, dvars, wvars, minvars, rvars, svars, fvars, data_lock>>

\* MAVLinkSender.disconnect: if self.sock: self.sock.close(), then
\* self.sock = None; stop() returns after it
M_Disconnect ==
    /\ mpc \in {"disconnect", "sock_none"}
    /\ IF mpc = "disconnect"
       THEN /\ sock' = IF sock = "none" THEN "none" ELSE "closed"
            /\ mpc' = IF sock = "none" THEN "stopped" ELSE "sock_none"
       ELSE /\ sock' = "none"
            /\ mpc' = "stopped"
    /\ UNCHANGED <<running, radar_running, ser_open>>
    /\ UNCHANGED <<pvars, lvars, cvars, dvars, wvars, minvars, rvars, svars, fvars, data_lock>>

\* ------------------------------------------------ mr72_mavlink_minimal.py

\* parse_sector(frame, msb_index, lsb_index)
parse_sector(fr, msb_index, lsb_index) ==
    IF Len(fr) # 19 THEN 0
    ELSE IF At(fr, 0) # 84 \/ At(fr, 1) # 72 THEN 0
    ELSE LET val == BitOr(At(fr, msb_index) * 256, At(fr, lsb_index))
         IN  IF val # 65535 THEN val ELSE 10000

Max(a, b) == IF a >= b THEN a ELSE b

\* to_cm of send_all_sectors
to_cm(val) == Min(65535, Max(0, val \div 10))

\* the arguments of send_all_sectors, in the order of its "sectors" list:
\* (msb_index, lsb_index) of sector1, sector2, sector3, sector_90 ... sector_270
MinimalSectors ==
    <<<<16, 17>>, <<2, 3>>, <<4, 5>>, <<6, 7>>, <<8, 9>>, <<10, 11>>,
      <<12, 13>>, <<14, 15>>>>

\* time.sleep(0.06), in milliseconds
minimal_sleep == 60
MaxLoops == 2                 \* iterations of the script that are explored

\* int((time.time() - boot_time) * 1000) & 0xFFFFFFFF: the time slept so far
\* (below 2^32 ms for every m_loops explored)
time_boot_ms == minimal_sleep * (m_loops - 1)

\* the messages of one call of send_all_sectors: distance_sensor_send(
\* time_boot_ms, 0, 1000, to_cm(distance), 0, sensor_id, 0, 255)
send_all_sectors(fr) ==
    [k \in 1..8 |->
        [time_boot_ms |-> time_boot_ms, min_distance |-> 0, max_distance |-> 1000,
         current_distance |->
             to_cm(parse_sector(fr, MinimalSectors[k][1], MinimalSectors[k][2])),
         type |-> 0, id |-> k, orientation |-> 0, covariance |-> 255]]

\* mav.wait_heartbeat(): pymavlink's recv_match(type='HEARTBEAT',
\* blocking=True) with no timeout returns when a HEARTBEAT has arrived and
\* not before; then the radar port is opened and boot_time is taken
N_WaitHeartbeat ==
    /\ m_pc = "wait_heartbeat"
    /\ m_heartbeat
    /\ m_pc' = "read"
    /\ UNCHANGED <<m_stream, m_frame, m_heartbeat, m_sent, m_loops>>
    /\ UNCHANGED <<pvars, lvars, cvars, dvars, wvars, rvars, data_lock, svars, mvars, fvars>>

\* frame = ser.read(19): the next 19 bytes of the line, fewer when the radar
\* sends no more before the time-out
N_Read ==
    /\ m_pc = "read"
    /\ m_loops < MaxLoops
    /\ m_loops' = m_loops + 1
    /\ m_frame' = Take(m_stream, Min(19, Len(m_stream)))
    /\ m_stream' = Drop(m_stream, Min(19, Len(m_stream)))
    /\ m_pc' = IF Len(m_frame') = 19 THEN "send" ELSE "sleep"
    /\ UNCHANGED <<m_sent, m_heartbeat>>
    /\ UNCHANGED <<pvars, lvars, cvars, dvars, wvars, rvars, data_lock, svars, mvars, fvars>>

\* the eight parse_sector calls and send_all_sectors(...)
N_Send ==
    /\ m_pc = "send"
    /\ m_sent' = m_sent \o send_all_sectors(m_frame)
    /\ m_pc' = "sleep"
    /\ UNCHANGED <<m_stream, m_frame, m_heartbeat, m_loops>>
    /\ UNCHANGED <<pvars, lvars, cvars, dvars, wvars, rvars, data_lock, svars, mvars, fvars>>

\* time.sleep(0.06)
N_Sleep ==
    /\ m_pc = "sleep"
    /\ m_pc' = "read"
    /\ UNCHANGED <<m_stream, m_frame, m_heartbeat, m_sent, m_loops>>
    /\ UNCHANGED <<pvars, lvars, cvars, dvars, wvars, rvars, data_lock, svars, mvars, fvars>>

\* ------------------------------------------ webcam.py, the recording worker
\* The body of each "with recording_lock:" is one step: the lock keeps the
\* other thread out of its own "with recording_lock:" for the whole body, and
\* current_recording is written nowhere else.

MaxRecordings == 3           \* VideoRecorder objects of one run that are explored

\* VideoRecorder.stop of current_recording: self.out.release() when the
\* writer was created
Release(rec) == IF rec \in started THEN released \cup {rec} ELSE released

\* "while recording_running:" of recording_worker; the thread ends when the
\* flag is False
W_While ==
    /\ w_pc = "while"
    /\ w_pc' = IF recording_running THEN "new" ELSE "dead"
    /\ UNCHANGED <<recording_running, current_recording, h_pc, recorders, started,
                   released, w_mark>>
    /\ UNCHANGED <<pvars, rvars, data_lock, svars, cvars, dvars, mvars, fvars,
                   minvars, lvars>>

\* the file name, then under the lock: "if current_recording:
\* current_recording.stop()", current_recording = VideoRecorder(...), and
\* start(), which opens the file or fails ("continue")
W_New ==
    /\ w_pc = "new"
    /\ recorders < MaxRecordings
    /\ released' = IF current_recording # None
                   THEN Release(current_recording) ELSE released
    /\ recorders' = recorders + 1
    /\ current_recording' = recorders + 1
    /\ \E ok \in BOOLEAN :
          /\ started' = IF ok THEN started \cup {recorders + 1} ELSE started
          /\ w_pc' = IF ok THEN "record" ELSE "while"
    /\ UNCHANGED <<recording_running, h_pc, w_mark>>
    /\ UNCHANGED <<pvars, rvars, data_lock, svars, cvars, dvars, mvars, fvars,
                   minvars, lvars>>

\* "while recording_running and (time.time() - start_time) < 60" comes to
\* its end: the flag is False or the minute is over (the frames written
\* until then are not counted)
W_Record ==
    /\ w_pc = "record"
    /\ w_pc' = "finish"
    /\ UNCHANGED <<recording_running, current_recording, h_pc, recorders, started,
                   released, w_mark>>
    /\ UNCHANGED <<pvars, rvars, data_lock, svars, cvars, dvars, mvars, fvars,
                   minvars, lvars>>

\* under the lock: "if current_recording: current_recording.stop();
\* current_recording = None"
W_Finish ==
    /\ w_pc = "finish"
    /\ released' = IF current_recording # None
                   THEN Release(current_recording) ELSE released
    /\ current_recording' = None
    /\ w_pc' = "while"
    /\ UNCHANGED <<recording_running, h_pc, recorders, started, w_mark>>
    /\ UNCHANGED <<pvars, rvars, data_lock, svars, cvars, dvars, mvars, fvars,
                   minvars, lvars>>

\* recording_status, POST with action "start" and not recording_running: the
\* flag is set, and a new thread is started when the old one is not alive
H_Start ==
    /\ h_pc = "idle"
    /\ ~recording_running
    /\ recording_running' = TRUE
    /\ w_pc' = IF w_pc = "dead" THEN "while" ELSE w_pc
    /\ UNCHANGED <<current_recording, h_pc, recorders, started, released, w_mark>>
    /\ UNCHANGED <<pvars, rvars, data_lock, svars, cvars, dvars, mvars, fvars,
                   minvars, lvars>>

\* recording_status, POST with action "stop" and recording_running, or
\* on_shutdown: recording_running = False
H_StopFlag ==
    /\ h_pc = "idle"
    /\ \E shutdown \in BOOLEAN :
          /\ ~shutdown => recording_running
          /\ h_pc' = IF shutdown THEN "shutdown" ELSE "stop"
    /\ recording_running' = FALSE
    /\ UNCHANGED <<current_recording, w_pc, recorders, started, released, w_mark>>
    /\ UNCHANGED <<pvars, rvars, data_lock, svars, cvars, dvars, mvars, fvars,
                   minvars, lvars>>

\* the rest of the stop action and of on_shutdown, under the lock: "if
\* current_recording: current_recording.stop(); current_recording = None";
\* the response is returned (on_shutdown: the join of at most 5 s, then the
\* server is down)
H_StopClear ==
    /\ h_pc \in {"stop", "shutdown"}
    /\ released' = IF current_recording # None
                   THEN Release(current_recording) ELSE released
    /\ current_recording' = None
    /\ w_mark' = Cardinality(started)
    /\ h_pc' = IF h_pc = "stop" THEN "idle" ELSE "down"
    /\ UNCHANGED <<recording_running, w_pc, recorders, started>>
    /\ UNCHANGED <<pvars, rvars, data_lock, svars, cvars, dvars, mvars, fvars,
                   minvars, lvars>>

\* the module after import with a camera: recording_running = True,
\* current_recording = None, the recording thread started
WInit ==
    /\ recording_running = TRUE
    /\ current_recording = None
    /\ w_pc = "while"
    /\ h_pc = "idle"
    /\ recorders = 0
    /\ started = {}
    /\ released = {}
    /\ w_mark = 0

WIdle == WInit

\* ------------------------------------ log_dwnld.py, the LOG_REQUEST path

CHUNK_SIZE == 90
LogIds == {1, 2}
\* a Python dict with integer keys: a function on a set of log ids
EmptyLogs == [id \in {} |-> 0]
\* sorted(logs), for log ids within LogIds
RECURSIVE SortedIds(_)
SortedIds(ids) ==
    IF ids = {} THEN <<>>
    ELSE LET least == CHOOSE i \in ids : \A j \in ids : i <= j
         IN  <<least>> \o SortedIds(ids \ {least})

\* msg.count of the LOG_DATA message that answers a request at ofs: the rest
\* of the log up to CHUNK_SIZE bytes, or fewer bytes than were asked for
\* (none at all when the flight controller has nothing to give)
ShortCounts == {0, 40}
ChunkCounts(size, ofs) ==
    {Min(CHUNK_SIZE, size - ofs)} \cup {c \in ShortCounts : c < size - ofs}

\* logs = request_log_list(mav): the LOG_ENTRY messages that arrived before
\* two seconds of silence (every entry, or only some of them);
\* "if not logs: return"
L_List ==
    /\ l_pc = "list"
    /\ \E got \in SUBSET (DOMAIN l_fc) :
          /\ l_logs' = [id \in got |-> l_fc[id]]
          /\ l_todo' = SortedIds(got)
          /\ l_pc' = IF got = {} THEN "returned" ELSE "for"
    /\ UNCHANGED <<l_fc, l_exists, l_id, l_ofs, l_file, l_erased, l_noise>>
    /\ UNCHANGED <<pvars, rvars, data_lock, svars, cvars, dvars, wvars, mvars, fvars, minvars>>

\* "for log_id in sorted(logs)": the next log is skipped when its out_file
\* exists, else download_log opens the file; after the loop, erase_logs(mav)
L_For ==
    /\ l_pc = "for"
    /\ IF l_todo = <<>>
       THEN /\ l_pc' = "erase"
            /\ UNCHANGED <<l_todo, l_id, l_ofs, l_file>>
       ELSE /\ l_todo' = Tail(l_todo)
            /\ IF Head(l_todo) \in l_exists
               THEN /\ l_pc' = "for"
                    /\ UNCHANGED <<l_id, l_ofs, l_file>>
               ELSE /\ l_id' = Head(l_todo)
                    /\ l_ofs' = 0
                    /\ l_file' = [l_file EXCEPT ![Head(l_todo)] = 0]
                    /\ l_pc' = "while"
    /\ UNCHANGED <<l_fc, l_exists, l_logs, l_erased, l_noise>>
    /\ UNCHANGED <<pvars, rvars, data_lock, svars, cvars, dvars, wvars, mvars, fvars, minvars>>

\* faulty variant: "if ofs < size" instead of "while": one chunk is fetched
L_While_OneChunk ==
    /\ l_pc = "while"
    /\ l_pc' = IF l_ofs < l_logs[l_id] /\ l_ofs = 0 THEN "recv" ELSE "for"
    /\ UNCHANGED <<l_fc, l_exists, l_logs, l_todo, l_id, l_ofs, l_file, l_erased,
                   l_noise>>
    /\ UNCHANGED <<pvars, rvars, data_lock, svars, cvars, dvars, wvars, mvars, fvars, minvars>>

\* download_log's "while ofs < size:": the next chunk is requested, or the
\* file is closed and download_log returns
L_While ==
    /\ l_pc = "while"
    /\ l_pc' = IF l_ofs < l_logs[l_id] THEN "recv" ELSE "for"
    /\ UNCHANGED <<l_fc, l_exists, l_logs, l_todo, l_id, l_ofs, l_file, l_erased,
                   l_noise>>
    /\ UNCHANGED <<pvars, rvars, data_lock, svars, cvars, dvars, wvars, mvars, fvars, minvars>>

\* msg = mav.recv_match(type="LOG_DATA", blocking=True, timeout=5): a
\* time-out (the chunk is requested again) or a message that is not the
\* chunk asked for (ignored); the inner loop goes on
L_RecvOther ==
    /\ l_pc = "recv"
    /\ l_noise > 0
    /\ l_noise' = l_noise - 1
    /\ UNCHANGED <<l_fc, l_exists, l_pc, l_logs, l_todo, l_id, l_ofs, l_file,
                   l_erased>>
    /\ UNCHANGED <<pvars, rvars, data_lock, svars, cvars, dvars, wvars, mvars, fvars, minvars>>

\* the chunk asked for: fh.write(bytes(msg.data[:msg.count]));
\* ofs += msg.count; break
L_RecvChunk ==
    /\ l_pc = "recv"
    /\ \E count \in ChunkCounts(l_logs[l_id], l_ofs) :
          /\ l_file' = [l_file EXCEPT ![l_id] = @ + count]
          /\ l_ofs' = l_ofs + count
    /\ l_pc' = "while"
    /\ UNCHANGED <<l_fc, l_exists, l_logs, l_todo, l_id, l_erased, l_noise>>
    /\ UNCHANGED <<pvars, rvars, data_lock, svars, cvars, dvars, wvars, mvars, fvars, minvars>>

\* ---- the inner loop of download_log, message by message

\* recv_match returned None (five seconds without a LOG_DATA message)
NoMsg == [id |-> None, ofs |-> 0, count |-> 0]
\* the ofs values of the LOG_DATA messages that are explored
Offsets == {10 * k : k \in 0..20}
\* the LOG_DATA messages that can arrive while the chunk of log id at ofs is
\* awaited: the answer to the request (as many bytes as the log has left, up
\* to CHUNK_SIZE, or fewer), answers to earlier requests and to requests of
\* other offsets or logs, and no message at all
LogDataMessages(logs, id, ofs) ==
    {[id |-> id, ofs |-> ofs, count |-> c] : c \in ChunkCounts(logs[id], ofs)}
    \cup [id : LogIds, ofs : Offsets \ {ofs}, count : ShortCounts \cup {CHUNK_SIZE}]
    \cup [id : LogIds \ {id}, ofs : {ofs}, count : ShortCounts \cup {CHUNK_SIZE}]
    \cup {NoMsg}

\* len(bytes(msg.data[:msg.count])): data holds CHUNK_SIZE bytes
Written(m) == Min(m.count, CHUNK_SIZE)

\* faulty variant: only msg.id is compared
L_RecvData_NoOffsetCheck ==
    /\ l_pc = "recv"
    /\ \E m \in LogDataMessages(l_logs, l_id, l_ofs) :
          /\ l_msg' = m
          /\ IF m = NoMsg \/ m.id # l_id
             THEN /\ l_noise > 0
                  /\ l_noise' = l_noise - 1
                  /\ UNCHANGED <<l_pc, l_ofs, l_file, l_writes>>
             ELSE /\ l_file' = [l_file EXCEPT ![l_id] = @ + Written(m)]
                  /\ l_writes' = IF Written(m) = 0 THEN l_writes
                                 ELSE Append(l_writes,
                                        [id |-> l_id, ofs |-> m.ofs,
                                         count |-> Written(m), at |-> l_file[l_id]])
                  /\ l_ofs' = l_ofs + m.count
                  /\ l_pc' = "while"
                  /\ UNCHANGED l_noise
    /\ UNCHANGED <<l_fc, l_exists, l_logs, l_todo, l_id, l_erased>>
    /\ UNCHANGED <<pvars, rvars, data_lock, svars, cvars, wvars, mvars, fvars, minvars>>

\* msg = mav.recv_match(type="LOG_DATA", blocking=True, timeout=5);
\* None: the chunk is requested again, continue;
\* "if msg.id != log_id or msg.ofs != ofs: continue";
\* fh.write(bytes(msg.data[:msg.count])); ofs += msg.count; break
L_RecvData ==
    /\ l_pc = "recv"
    /\ \E m \in LogDataMessages(l_logs, l_id, l_ofs) :
          /\ l_msg' = m
          /\ IF m = NoMsg \/ m.id # l_id \/ m.ofs # l_ofs
             THEN /\ l_noise > 0
                  /\ l_noise' = l_noise - 1
                  /\ UNCHANGED <<l_pc, l_ofs, l_file, l_writes>>
             ELSE /\ l_file' = [l_file EXCEPT ![l_id] = @ + Written(m)]
                  /\ l_writes' = IF Written(m) = 0 THEN l_writes
                                 ELSE Append(l_writes,
                                        [id |-> l_id, ofs |-> m.ofs,
                                         count |-> Written(m), at |-> l_file[l_id]])
                  /\ l_ofs' = l_ofs + m.count
                  /\ l_pc' = "while"
                  /\ UNCHANGED l_noise
    /\ UNCHANGED <<l_fc, l_exists, l_logs, l_todo, l_id, l_erased>>
    /\ UNCHANGED <<pvars, rvars, data_lock, svars, cvars, wvars, mvars, fvars, minvars>>

\* erase_logs(mav): command_long_send(..., MAV_CMD_LOG_ERASE, ...); the
\* COMMAND_ACK, or its absence, is only printed; main returns
L_Erase ==
    /\ l_pc = "erase"
    /\ l_erased' = l_erased + 1
    /\ l_pc' = "returned"
    /\ UNCHANGED <<l_fc, l_exists, l_logs, l_todo, l_id, l_ofs, l_file, l_noise>>
    /\ UNCHANGED <<pvars, rvars, data_lock, svars, cvars, dvars, wvars, mvars, fvars, minvars>>

\* main after "mav.wait_heartbeat()": the flight controller holds the logs
\* fc, the out_files of the ids in ex exist, n disturbances are to come
LInit(fc, ex, n) ==
    /\ l_fc = fc
    /\ l_exists = ex
    /\ l_pc = "list"
    /\ l_logs = EmptyLogs
    /\ l_todo = <<>>
    /\ l_id = 0
    /\ l_ofs = 0
    /\ l_file = [id \in LogIds |-> -1]
    /\ l_erased = 0
    /\ l_noise = n
    /\ l_msg = NoMsg
    /\ l_writes = <<>>

LIdle == LInit(EmptyLogs, {}, 0)

\* --------------------------------------------------- what the radar sends

\* read_frames has not yet waited for the rest of a frame
NothingHeld == [bytes |-> <<>>, n |-> 0]

\* n times the byte b
Repeat(b, n) == [i \in 1..n |-> b]

RECURSIVE Concat(_)
Concat(seqs) == IF seqs = <<>> THEN <<>> ELSE Head(seqs) \o Concat(Tail(seqs))

\* the frame of create_test_frame, and a second valid frame
TestFrame == create_test_frame(HEADER, TestValues)
\* (sector2 reads 5 mm, sector3 has no reading)
OtherValues == <<5, 65535, 1300, 1900, 2600, 3100, 2300, 1100>>
OtherFrame == create_test_frame(HEADER, OtherValues)

\* garbage: a run of one byte value that is not a header
GarbageBytes == {0, 84, 72}
MaxGarbage == 20
LongGarbage == 200
\* a false header: 0x54 0x48 followed by k filler bytes, then a valid frame
\* that starts inside the 19 bytes of the candidate
MaxFiller == 16

SyncScenarios ==
    {[kind |-> "garbage", prefix |-> Repeat(g, n), frames |-> fs] :
        g \in GarbageBytes, n \in (0..MaxGarbage) \cup {LongGarbage},
        fs \in {<<TestFrame>>, <<TestFrame, OtherFrame>>}}
    \cup
    {[kind |-> "false_header", prefix |-> HEADER \o Repeat(0, k), frames |-> fs] :
        k \in 0..MaxFiller, fs \in {<<TestFrame>>, <<TestFrame, OtherFrame>>}}

RInit(sc) ==
    /\ scenario = sc
    /\ stream = sc.prefix \o Concat(sc.frames)
    /\ buffer = <<>>
    /\ rpc = "read"
    /\ parsed_data = NoneDict
    /\ latest_data = EmptyDict
    /\ data_lock = "free"
    /\ decodes = <<>>
    /\ held = NothingHeld
    /\ emitted = <<>>

PIdle ==
    /\ test_case = [values |-> TestValues, header |-> HEADER, crc |-> "crc8",
                     length |-> FRAME_LENGTH]
    /\ frame = <<>>
    /\ result = Unparsed
    /\ log = ""

RIdle == RInit([kind |-> "none", prefix |-> <<>>, frames |-> <<>>])

SInit(base) ==
    /\ spc = "get"
    /\ radar_data = EmptyDict
    /\ sector_i = 1
    /\ sent = <<>>
    /\ now = 0
    /\ ticks = 0
    /\ snap = 0
    /\ clock_base = base
    /\ calls = <<>>
    /\ pending = "none"

\* the state after MR72MAVLinkBridge.start(): both threads run, the port and
\* the socket are open; f failures of the devices are still to come
MInit(f) ==
    /\ mpc = "run"
    /\ running = TRUE
    /\ radar_running = TRUE
    /\ ser_open = TRUE
    /\ sock = "open"
    /\ faults = f
    /\ errlog = [read |-> 0, send |-> 0, loop |-> 0, serial |-> 0]

\* the script before its first read, s being what the radar will send
NInit(s) ==
    /\ m_stream = s
    /\ m_frame = <<>>
    /\ m_pc = "read"
    /\ m_heartbeat = TRUE
    /\ m_sent = <<>>
    /\ m_loops = 0

NIdle == NInit(<<>>)

SIdle == SInit(0) /\ MInit(0) /\ NIdle /\ LIdle /\ WIdle
    /\ WIdle

SyncInit ==
    /\ PIdle
    /\ \E sc \in SyncScenarios : RInit(sc)
    /\ SIdle

SyncNext == R_Loop \/ R_Read \/ R_Scan \/ R_Lock \/ R_Store

\* the reader starts in the middle of a frame: the last 19 - j bytes of a
\* valid frame, then valid frames back to back
MaxAligned == 3
AlignedFrames == <<TestFrame, OtherFrame, TestFrame, OtherFrame>>
AlignScenarios ==
    {[kind |-> "misaligned", prefix |-> Drop(OtherFrame, j),
      frames |-> Take(AlignedFrames, n)] :
        j \in 1..(FRAME_LENGTH - 1), n \in 2..MaxAligned}

AlignInit ==
    /\ PIdle
    /\ \E sc \in AlignScenarios : RInit(sc)
    /\ SIdle

SpecAlign == AlignInit /\ [][SyncNext]_vars

\* ------------------------------------------------------------ the bridge

\* a 19-byte block with the header and a last byte that is not its CRC-8
BadFrame == frame_data(HEADER, TestValues) \o <<0>>
BridgeFrames == {TestFrame, OtherFrame, BadFrame}
MaxFrames == 2
\* time.time() at start: a clock that was never set (1970), and a set one
ClockBases == {0, 1700000000}

BridgeScenarios ==
    {[kind |-> "frames", prefix |-> <<>>, frames |-> fs] :
        fs \in UNION {[1..n -> BridgeFrames] : n \in 1..MaxFrames}}

Init ==
    /\ PIdle
    /\ \E sc \in BridgeScenarios : RInit(sc)
    /\ \E base \in ClockBases : SInit(base)
    /\ MInit(0)
    /\ NIdle
    /\ LIdle
    /\ WIdle

Next ==
    \/ R_Loop \/ R_Read \/ R_Scan \/ R_Lock \/ R_Store
    \/ S_Loop \/ S_Lock \/ S_Copy \/ S_Sector \/ S_Obstacle \/ S_Sleep \/ S_Except

Spec == Init /\ [][Next]_vars

SpecSync == SyncInit /\ [][SyncNext]_vars

PInit ==
    /\ test_case \in TestCases
    /\ frame = BuildFrame(test_case)
    /\ result = Unparsed
    /\ log = ""
    /\ RIdle
    /\ SIdle

\* result = radar.parse_frame(frame)
Parse ==
    /\ result = Unparsed
    /\ result' = parse_frame(frame)
    /\ log' = parse_frame_log(frame)
    /\ UNCHANGED <<frame, test_case>>
    /\ UNCHANGED <<rvars, data_lock, svars, cvars, dvars, wvars, mvars, fvars, minvars, lvars>>

PNext == Parse

SpecParse == PInit /\ [][PNext]_vars

\* ------------------------- the bridge with device failures and shutdown

MaxFaults == 2
\* the radar sends one valid frame
RunScenarios ==
    {[kind |-> "run", prefix |-> <<>>, frames |-> <<f>>] : f \in {TestFrame, OtherFrame}}

RunInit ==
    /\ PIdle
    /\ \E sc \in RunScenarios : RInit(sc)
    /\ SInit(0)
    /\ \E f \in 0..MaxFaults : MInit(f)
    /\ NIdle
    /\ LIdle
    /\ WIdle

RunNext ==
    \/ R_Loop \/ R_Read \/ R_ReadError \/ R_Except \/ R_Scan \/ R_Lock \/ R_Store
    \/ S_Loop \/ S_Lock \/ S_Copy \/ S_Sector \/ S_Obstacle \/ S_Sleep \/ S_Except
    \/ M_Interrupt \/ M_BridgeStop \/ M_RadarStop \/ M_Disconnect

SpecRun == RunInit /\ [][RunNext]_vars

\* the steps of each thread; the interpreter keeps scheduling every thread
\* that can run (a thread waiting for data_lock runs once the lock is free)
ReaderStep == R_Loop \/ R_Read \/ R_Except \/ R_Scan \/ R_Lock \/ R_Store
SenderStep == S_Loop \/ S_Lock \/ S_Copy \/ S_Sector \/ S_Obstacle \/ S_Sleep \/ S_Except
StopStep == M_BridgeStop \/ M_RadarStop \/ M_Disconnect

\* shutdown of a bridge whose devices do not fail: the radar sends one frame
StopScenarios ==
    {[kind |-> "stop", prefix |-> <<>>, frames |-> <<f>>] : f \in {TestFrame, OtherFrame}}

StopInit ==
    /\ PIdle
    /\ \E sc \in StopScenarios : RInit(sc)
    /\ SInit(0)
    /\ MInit(0)
    /\ NIdle
    /\ LIdle
    /\ WIdle

StopNext ==
    \/ R_Loop \/ R_Read \/ R_Except \/ R_Scan \/ R_Lock \/ R_Store
    \/ S_Loop \/ S_Lock \/ S_Copy \/ S_Sector \/ S_Obstacle \/ S_Sleep \/ S_Except
    \/ M_Interrupt \/ M_BridgeStop \/ M_RadarStop \/ M_Disconnect

SpecStop ==
    /\ StopInit /\ [][StopNext]_vars
    /\ WF_vars(ReaderStep) /\ WF_vars(SenderStep) /\ WF_vars(StopStep)

\* the same shutdown with send_message taken one evaluation at a time
RaceNext ==
    \/ R_Loop \/ R_Read \/ R_Except \/ R_Scan \/ R_Lock \/ R_Store
    \/ S_Loop \/ S_Lock \/ S_Copy \/ S_SendCheck \/ S_SendLoad \/ S_SendTo
    \/ S_Obstacle \/ S_Sleep \/ S_Except
    \/ M_Interrupt \/ M_BridgeStop \/ M_RadarStop \/ M_Disconnect

SpecRace == StopInit /\ [][RaceNext]_vars

\* --------------------------------------------------- log_dwnld.py's runs

\* log sizes: an empty log, one chunk exactly, and logs of several chunks
LogSizes == {0, 90, 100, 200}
MaxNoise == 1
FcLogs == UNION {[ids -> LogSizes] : ids \in SUBSET LogIds}

LogInit ==
    /\ PIdle
    /\ RIdle
    /\ SInit(0) /\ MInit(0)
    /\ NIdle
    /\ \E fc \in FcLogs, ex \in SUBSET LogIds, n \in 0..MaxNoise : LInit(fc, ex, n)
    /\ WIdle

LogNext == L_List \/ L_For \/ L_While \/ L_RecvOther \/ L_RecvChunk \/ L_Erase

SpecLog == LogInit /\ [][LogNext]_vars

\* ------------------------------------------------- the webcam server's runs

RecordInit == PIdle /\ RIdle /\ SIdle

RecordNext ==
    \/ W_While \/ W_New \/ W_Record \/ W_Finish
    \/ H_Start \/ H_StopFlag \/ H_StopClear

SpecRecord == RecordInit /\ [][RecordNext]_vars

\* the same runs with every LOG_DATA message of the inner loop
DataNext == L_List \/ L_For \/ L_While \/ L_RecvData \/ L_Erase

SpecData == LogInit /\ [][DataNext]_vars

\* ------------------------------------- the bridge running for a second

\* the radar is silent, or sends one valid frame
LongScenarios ==
    {[kind |-> "long", prefix |-> <<>>, frames |-> fs] : fs \in {<<>>, <<TestFrame>>, <<OtherFrame>>}}

LongInit ==
    /\ PIdle
    /\ \E sc \in LongScenarios : RInit(sc)
    /\ SInit(0)
    /\ MInit(0)
    /\ NIdle
    /\ LIdle
    /\ WIdle

SpecLong == LongInit /\ [][Next]_vars

\* ------------------------------------------------- the bridge's startup

\* the radar object after MR72Radar.__init__: no thread yet
RNew(sc) ==
    /\ scenario = sc
    /\ stream = sc.prefix \o Concat(sc.frames)
    /\ buffer = <<>>
    /\ rpc = "idle"
    /\ parsed_data = NoneDict
    /\ latest_data = EmptyDict
    /\ data_lock = "free"
    /\ decodes = <<>>
    /\ held = NothingHeld
    /\ emitted = <<>>

\* the bridge after MR72MAVLinkBridge.__init__: running is False, no serial
\* port (self.ser = None), no socket (self.sock = None), no sender thread
BNew ==
    /\ spc = "idle"
    /\ radar_data = EmptyDict
    /\ sector_i = 1
    /\ sent = <<>>
    /\ now = 0
    /\ ticks = 0
    /\ snap = 0
    /\ clock_base = 0
    /\ calls = <<>>
    /\ pending = "none"
    /\ mpc = "start"
    /\ running = FALSE
    /\ radar_running = FALSE
    /\ ser_open = FALSE
    /\ sock = "none"
    /\ faults = 0
    /\ errlog = [read |-> 0, send |-> 0, loop |-> 0, serial |-> 0]

\* the radar sends one or two valid frames
StartScenarios ==
    {[kind |-> "start", prefix |-> <<>>, frames |-> fs] :
        fs \in {<<TestFrame>>, <<OtherFrame>>, <<TestFrame, OtherFrame>>}}

StartInit ==
    /\ PIdle
    /\ \E sc \in StartScenarios : RNew(sc)
    /\ BNew
    /\ NIdle
    /\ LIdle
    /\ WIdle

StartNext ==
    \/ M_RadarStart \/ M_Connect \/ M_BridgeStart \/ M_StartFailed
    \/ R_Loop \/ R_Read \/ R_Except \/ R_Scan \/ R_Lock \/ R_Store
    \/ S_Loop \/ S_Lock \/ S_Copy \/ S_Sector \/ S_Obstacle \/ S_Sleep \/ S_Except
    \/ M_Interrupt \/ M_BridgeStop \/ M_RadarStop \/ M_Disconnect

SpecStart == StartInit /\ [][StartNext]_vars

\* ------------------------------------------- the minimal script's runs

\* the raw 16-bit values swept for one sector field
RawValues ==
    (0..300) \cup {1000 * k : k \in 1..65} \cup (9990..10020) \cup (65500..65535)
\* a frame whose sector1 field holds raw (the script checks no checksum)
MinimalFrame(raw) ==
    create_test_frame(HEADER, <<1500, 65535, 1200, 1800, 2500, 3000, 2200, raw>>)
\* the radar sends one or two frames, the first after k stray bytes
MaxStray == 1
MinimalStreams ==
    {Repeat(0, k) \o MinimalFrame(raw) \o tail :
        k \in 0..MaxStray, raw \in RawValues, tail \in {<<>>, TestFrame}}

MinimalInit ==
    /\ PIdle
    /\ RIdle
    /\ SInit(0) /\ MInit(0) /\ LIdle
    /\ WIdle
    /\ \E s \in MinimalStreams : NInit(s)

MinimalNext == N_Read \/ N_Send \/ N_Sleep

SpecMinimal == MinimalInit /\ [][MinimalNext]_vars

\* the script from its first line: the MAVLink connection is made and the
\* script waits for a HEARTBEAT, which the flight controller sends or not
NBoot(s, hb) ==
    /\ m_stream = s
    /\ m_frame = <<>>
    /\ m_pc = "wait_heartbeat"
    /\ m_heartbeat = hb
    /\ m_sent = <<>>
    /\ m_loops = 0

BootValues == 0..60
BootStreams == {MinimalFrame(raw) : raw \in BootValues}

BootInit ==
    /\ PIdle
    /\ RIdle
    /\ SInit(0) /\ MInit(0) /\ LIdle
    /\ WIdle
    /\ \E s \in BootStreams, hb \in BOOLEAN : NBoot(s, hb)

BootNext == N_WaitHeartbeat \/ N_Read \/ N_Send \/ N_Sleep

\* the script is one process; it takes its next step whenever it has one
SpecBoot == BootInit /\ [][BootNext]_vars /\ WF_vars(BootNext)

\* ---------------------------------------------------------------------------
\* Properties of parse_frame (checked under SpecParse)
\* ---------------------------------------------------------------------------

Parsed == result # Unparsed
IsDict(r) == DOMAIN r = SectorNames
\* the 16-bit big-endian number held by the bytes at Python indexes i, i+1
BigEndian(fr, i) == fr[i + 1] * 256 + fr[i + 2]
\* the byte pair of each sector, as the protocol lays the frame out
PairOf(s) ==
    CASE s = "sector2" -> 2 [] s = "sector3" -> 4 [] s = "obstacle_90" -> 6
      [] s = "obstacle_135" -> 8 [] s = "obstacle_180" -> 10
      [] s = "obstacle_225" -> 12 [] s = "obstacle_270" -> 14
      [] s = "sector1" -> 16
HeaderOk(fr) == Len(fr) >= 2 /\ fr[1] = 84 /\ fr[2] = 72
\* the last byte is the CRC-8 (polynomial 0x31, initial value 0) of the rest
CrcOk(fr) == Len(fr) >= 1 /\ fr[Len(fr)] = test_crc(SubSeq(fr, 1, Len(fr) - 1))

C2_NoReading ==
    (Parsed /\ IsDict(result)) =>
        \A s \in SectorNames :
            /\ (result[s] = None) <=>
                   (frame[PairOf(s) + 1] = 255 /\ frame[PairOf(s) + 2] = 255)
            /\ result[s] # 65535
            /\ \A k \in 1..3 :
                  parse_sectors(frame)[k] = result[<<"sector1", "sector2", "sector3">>[k]]

C2_Witness ==
    /\ Parsed /\ IsDict(result)
    /\ result["sector2"] = None
    /\ result["sector3"] = 255
    /\ frame[PairOf("sector3") + 2] = 255

\* C5: parse_frame returns None for every input whose length is not 19 and
\* for every 19-byte input without the header; these two checks come first:
\* the warning logged is theirs, whatever the checksum byte is.
C5_LengthAndHeaderFirst ==
    Parsed =>
        /\ (Len(frame) # 19) =>
              (result = NoneDict /\ log = "Invalid frame length")
        /\ (Len(frame) = 19 /\ ~HeaderOk(frame)) =>
              (result = NoneDict /\ log = "Invalid header")

\* a 19-byte frame with a wrong header and a right checksum is rejected for
\* its header
C5_Witness ==
    /\ Parsed /\ Len(frame) = 19 /\ ~HeaderOk(frame) /\ CrcOk(frame)
    /\ result = NoneDict /\ log = "Invalid header"

\* the sector name of the test's d1..d8
FrameOrder ==
    <<"sector2", "sector3", "obstacle_90", "obstacle_135", "obstacle_180",
      "obstacle_225", "obstacle_270", "sector1">>
BuiltByTest ==
    /\ test_case.crc = "crc8" /\ test_case.header = HEADER
    /\ test_case.length = FRAME_LENGTH

\* C6: a frame built the way create_test_frame builds it (header, eight
\* big-endian values, CRC-8 of those 18 bytes) is accepted by parse_frame,
\* and every value other than 0xFFFF comes back unchanged under its name.
C6_RoundTrip ==
    (Parsed /\ BuiltByTest) =>
        /\ result # NoneDict
        /\ IsDict(result)
        /\ \A i \in 1..8 :
              test_case.values[i] # 65535 =>
                  result[FrameOrder[i]] = test_case.values[i]

C6_Witness ==
    /\ Parsed /\ BuiltByTest /\ IsDict(result)
    /\ test_case.values = TestValues
    /\ result["obstacle_225"] = 3000

\* C7: the frame of test 3 (header, eight 0xFFFF fields, last byte 0x00)
\* is parsed into a result that reports at least one sector as None.
C7_InvalidDataParsed ==
    (Parsed /\ frame = frame_data(HEADER, InvalidValues) \o <<0>>) =>
        /\ result # NoneDict
        /\ IsDict(result)
        /\ \E s \in SectorNames : result[s] = None

\* ---------------------------------------------------------------------------
\* Properties of the frame synchroniser (checked under SpecSync)
\* ---------------------------------------------------------------------------

\* every byte the radar sent has been read and the loop is back at the read
ReaderIdle == rpc = "read" /\ stream = <<>>
\* the first valid frame the radar sent was extracted, parsed and stored
FirstFrameStored ==
    /\ Len(decodes) >= 1
    /\ decodes[1] = parse_frame(scenario.frames[1])
    /\ Len(scenario.frames) = 1 => latest_data = parse_frame(scenario.frames[1])

\* C3: a valid frame preceded by a run of non-header garbage bytes of any
\* length is recovered (extracted, parsed, stored as latest_data), however
\* the byte stream is split into reads.
C3_RecoversAfterGarbage ==
    (scenario.kind = "garbage" /\ ReaderIdle) => FirstFrameStored

\* C4: after a candidate is rejected, scanning resumes one byte after the
\* candidate's first byte, so a valid frame that starts inside the 19 bytes
\* of the rejected candidate is still found.
C4_ResumesInsideRejected ==
    (scenario.kind = "false_header" /\ ReaderIdle) => FirstFrameStored

\* ---------------------------------------------------------------------------
\* Properties of the bridge: reader thread and sender thread (checked under Spec)
\* ---------------------------------------------------------------------------

\* the dicts parse_frame returns for the frames the radar sends in this run
ParseOf == [f \in BridgeFrames |-> parse_frame(f)]
AcceptedDicts ==
    {ParseOf[scenario.frames[i]] : i \in 1..Len(scenario.frames)} \ {NoneDict}
\* empty, or the complete 8 values of one single frame
OneFrameOrEmpty(d) ==
    d = EmptyDict \/ (d \in AcceptedDicts /\ DOMAIN d = SectorNames)

\* what the reader stored last (decodes grows only in R_Store)
LastStored == IF decodes = <<>> THEN EmptyDict ELSE decodes[Len(decodes)]
\* the sender thread is past get_latest_data in this iteration
HoldsCopy == spc \in {"sectors", "obstacle", "sleep", "except"}

\* C8: under every interleaving, only the reader (holding the lock) writes
\* the snapshot: it always is what the reader stored last; what
\* get_latest_data returns is empty or the complete 8 values of one single
\* parsed frame, never a mixture; a later write by the reader does not
\* alter a copy already returned (it still is the dict that was the
\* snapshot when it was taken).
C8_SnapshotConsistent ==
    /\ OneFrameOrEmpty(radar_data) /\ OneFrameOrEmpty(latest_data)
    /\ latest_data = LastStored
    /\ (data_lock = "reader") <=> (rpc = "store")
    /\ (data_lock = "sender") <=> (spc = "copy")
    /\ HoldsCopy => radar_data = IF snap = 0 THEN EmptyDict ELSE decodes[snap]

\* the sender holds a copy of the first frame while the reader has already
\* stored the second
C8_Witness ==
    /\ radar_data = parse_frame(TestFrame)
    /\ latest_data = parse_frame(OtherFrame)
    /\ spc = "sectors" /\ snap = 1 /\ Len(decodes) = 2

DistanceReports == {i \in 1..Len(sent) : sent[i].msg = "DISTANCE_SENSOR"}

\* C9: every report sent at a tick carries the values of the most recent
\* frame stored at or before the tick's copy of the snapshot (frames that
\* arrive faster than ticks are coalesced; a tick without a new frame
\* resends the same values).
C9_ReportsLatestDecode ==
    \A i \in DistanceReports :
        /\ sent[i].snap \in 1..Len(decodes)
        /\ sent[i].payload.current_distance =
              decodes[sent[i].snap][sent[i].sector] \div 10

\* two frames were stored before the first report; the first frame was
\* never reported, and two ticks reported the second one
C9_Witness ==
    /\ Len(decodes) = 2
    /\ \A i \in DistanceReports : sent[i].snap = 2
    /\ \E i, j \in DistanceReports :
          /\ sent[i].tick < sent[j].tick
          /\ sent[i].sector = sent[j].sector
          /\ sent[i].payload.current_distance = sent[j].payload.current_distance

\* C10: two reports for the same sector are never less than send_interval
\* apart, whatever the reader does in between, also when the iteration of
\* the first one ended in the except branch.
C10_OneReportPerWindow ==
    \A i, j \in DistanceReports :
        (i < j /\ sent[i].sector = sent[j].sector) =>
            sent[j].at - sent[i].at >= send_interval

\* two consecutive iterations reported sector1; the first ended in the
\* except branch (sector3 had a reading, its orientation -45 does not pack)
C10_Witness ==
    \E i, j \in DistanceReports :
        /\ i < j /\ sent[i].sector = "sector1" /\ sent[j].sector = "sector1"
        /\ sent[j].tick = sent[i].tick + 1
        /\ decodes[sent[i].snap]["sector3"] # None
        /\ sent[j].at - sent[i].at = error_sleep

\* ---------------------------------------------------------------------------
\* Properties of one iteration of bridge_loop (checked under Spec)
\* ---------------------------------------------------------------------------

\* the sectors bridge_loop reports as distance sensors
ReportedSectors == {OrientationOrder[k] : k \in 1..Len(OrientationOrder)}
\* this iteration had a snapshot and has made all the calls it will make
TickDone == spc \in {"sleep", "except"} /\ radar_data # EmptyDict
\* the "for sector, orientation" loop of this iteration ran to its end
SectorLoopDone == spc = "obstacle"
\* the calls of send_distance_sensor this iteration made for sector s
CallsFor(s) ==
    {i \in 1..Len(calls) : calls[i].msg = "DISTANCE_SENSOR" /\ calls[i].sector = s}
\* the reports this iteration transmitted for sector s
ReportsFor(s) ==
    {i \in DistanceReports : sent[i].tick = ticks /\ sent[i].sector = s}

\* C11: on every send tick that has a snapshot, send_distance_sensor is
\* called exactly once for each of the 8 sectors, with the orientation the
\* mapping gives the sector.
C11_OneCallPerSector ==
    TickDone =>
        \A s \in SectorNames :
            /\ Cardinality(CallsFor(s)) = 1
            /\ s \in ReportedSectors =>
                  \A i \in CallsFor(s) : calls[i].orientation = sector_orientations[s]

\* C13 (the case the claim names): a call of send_distance_sensor with a
\* distance at or below the lower bound (0 cm, from a reading of 0..9 mm) is
\* not dropped: it gives exactly one transmitted report, which carries the
\* bound.
C13_ClampedNeverDropped ==
    \A i \in 1..Len(calls) :
        (calls[i].msg = "DISTANCE_SENSOR" /\ calls[i].distance_cm <= 0) =>
            /\ calls[i].outcome = "ok"
            /\ Cardinality(ReportsFor(calls[i].sector)) = 1
            /\ \A j \in ReportsFor(calls[i].sector) :
                  sent[j].payload.current_distance = sent[j].payload.min_distance

\* C14: every sector report the bridge transmits carries an orientation that
\* is a compass octant, 0..7.
C14_OrientationIsOctant ==
    \A i \in DistanceReports : sent[i].payload.orientation \in 0..7

\* C15: a reading of d mm decoded for sector1, sector2 or sector3 is
\* reported by the tick that holds it, for that same sector, as d \div 10 cm.
C15_ReportedInCentimetres ==
    TickDone =>
        \A s \in ReportedSectors :
            HasReading(radar_data, s) =>
                /\ ReportsFor(s) # {}
                /\ \A j \in ReportsFor(s) :
                      sent[j].payload.current_distance = radar_data[s] \div 10

\* the most recent reading of sector s in the frames stored before the one
\* the iteration holds (None when there is none)
PreviousEstimate(s) ==
    LET earlier == {k \in 1..(snap - 1) : decodes[k][s] # None}
    IN  IF earlier = {} THEN None
        ELSE decodes[CHOOSE k \in earlier : \A j \in earlier : j <= k][s]

\* C16: when the frame the iteration holds carries 0xFFFF for a sector that
\* had a reading before, the iteration reports for that sector the previous
\* estimate, and for the other sectors the values of the new frame.  (The
\* sector that never had a reading is the case of C17.)
C16_HoldsPreviousEstimate ==
    SectorLoopDone =>
        \A s \in ReportedSectors :
            IF radar_data[s] = None
            THEN PreviousEstimate(s) # None =>
                    /\ CallsFor(s) # {}
                    /\ \A i \in CallsFor(s) :
                          calls[i].distance_cm = PreviousEstimate(s) \div 10
            ELSE \A i \in CallsFor(s) : calls[i].distance_cm = radar_data[s] \div 10

\* sector s had no reading in any frame stored so far
NeverRead(s) == \A k \in 1..Len(decodes) : decodes[k][s] = None

\* C17: for a sector without a reading in every frame, every tick reports
\* one and the same fallback distance for it.
C17_FallbackForSilentSector ==
    SectorLoopDone =>
        \A s \in ReportedSectors :
            NeverRead(s) =>
                /\ CallsFor(s) # {}
                /\ \A i, j \in CallsFor(s) : calls[i].distance_cm = calls[j].distance_cm

\* C20: a failure while building or sending one message stays inside the
\* send operation: nothing reaches the except clause of bridge_loop, and an
\* iteration that has a snapshot calls the send for every sector that has a
\* reading and for the obstacle message, whatever failed before.
C20_FailureStaysInSend ==
    /\ errlog.loop = 0
    /\ TickDone =>
          /\ \A s \in ReportedSectors : HasReading(radar_data, s) => CallsFor(s) # {}
          /\ \E i \in 1..Len(calls) : calls[i].msg = "OBSTACLE_DISTANCE"

\* ---------------------------------------------------------------------------
\* Properties of the reports sent by mr72_mavlink_minimal.py (checked under
\* SpecMinimal)
\* ---------------------------------------------------------------------------

\* C12: in every sector report that is transmitted, current_distance lies
\* within the min_distance and max_distance of that same message, whatever
\* the raw value of the sector was.
C12_CurrentWithinBounds ==
    \A i \in 1..Len(m_sent) :
        /\ m_sent[i].min_distance <= m_sent[i].current_distance
        /\ m_sent[i].current_distance <= m_sent[i].max_distance

\* ---------------------------------------------------------------------------
\* Properties of shutdown (checked under SpecStop) and of device failures
\* (checked under SpecRun)
\* ---------------------------------------------------------------------------

BothExited == rpc = "done" /\ spc = "done"
HandlesClosed == ~ser_open /\ sock = "none"

\* C18: once stop() is called it runs to its end without waiting for a
\* thread; the serial port and the socket are closed; read_frames and
\* bridge_loop each end at their next loop test, so that eventually neither
\* runs.
C18_StopEndsBothLoops ==
    /\ (mpc = "stop") ~> (mpc = "stopped" /\ HandlesClosed /\ BothExited)
    /\ [][(rpc = "read" /\ ~radar_running /\ rpc' # rpc) => rpc' = "done"]_vars
    /\ [][(spc = "get" /\ ~running /\ spc' # spc) => spc' = "done"]_vars

\* both threads ended after work was done: a frame was stored and a report
\* sent before the stop
C18_Witness ==
    /\ mpc = "stopped" /\ HandlesClosed /\ BothExited
    /\ decodes # <<>> /\ sent # <<>>

\* C19: an exception from the serial read or from sock.sendto never ends the
\* thread it occurs in: read_frames ends only when MR72Radar.running is
\* false and bridge_loop only when MR72MAVLinkBridge.running is false; after
\* a failed read the thread is back at the loop test, and a failed sendto
\* does not reach the except clause of bridge_loop.
C19_FailureNeverEndsRole ==
    /\ [](rpc = "done" => ~radar_running)
    /\ [](spc = "done" => ~running)
    /\ [][rpc = "except" => rpc' \in {"except", "read"}]_vars
    /\ [][errlog'.send > errlog.send => spc' \in {"sectors", "obstacle", "sleep"}]_vars

\* a read failed and a sendto failed, and both threads went on: the reader
\* stored a frame read afterwards, the sender is in a later iteration
C19_Witness ==
    /\ running /\ radar_running
    /\ errlog.read >= 1 /\ errlog.send >= 1
    /\ rpc = "ser" /\ spc = "sectors"
    /\ \E i \in DistanceReports : sent[i].tick = ticks

\* ---------------------------------------------------------------------------
\* C21  Whenever MR72MAVLinkBridge.start has returned False, no reader thread
\*      and no sender thread is running.
\*      As stated this fails: start() opens the port and starts the reader
\*      thread before it tries the telemetry connection, and returns False on
\*      a failed connection without stopping the reader.
StartReturnedFalse == mpc = "failed"
NoThreadRunning == rpc \in {"idle", "done"} /\ spc \in {"idle", "done"}

C21_NoLoopAfterFailedStart == StartReturnedFalse => NoThreadRunning

\* ---------------------------------------------------------------------------
\* C24  The telemetry handshake always terminates: when no initial heartbeat
\*      arrives, the connecting step ends (in Disconnected) instead of
\*      waiting forever.
\*      As stated this fails for mr72_mavlink_minimal.py: mav.wait_heartbeat()
\*      is called without a timeout and never returns when the flight
\*      controller is silent.
Connecting == m_pc = "wait_heartbeat"

C24_HandshakeTerminates == Connecting ~> ~Connecting

\* ---------------------------------------------------------------------------
\* C25  While the bridge is running it emits a heartbeat message at every
\*      heartbeat_interval tick, whatever the sector reports do and whether
\*      or not a radar frame has arrived.
\*      As stated this fails: bridge_loop builds DISTANCE_SENSOR and
\*      OBSTACLE_DISTANCE messages only; no HEARTBEAT is ever handed to the
\*      socket.
\* the slowest heartbeat the configuration's default allows (1 Hz), in ms
heartbeat_interval == 1000
Heartbeats == {i \in 1..Len(sent) : sent[i].msg = "HEARTBEAT"}

C25_HeartbeatEveryInterval ==
    (running /\ spc # "done") => Cardinality(Heartbeats) >= now \div heartbeat_interval

\* ---------------------------------------------------------------------------
\* C26  While the link is Disconnected the bridge sends no sector reports
\*      but keeps reading and decoding radar frames, and it queues no
\*      backlog: the first report sent once the link is Connected carries only
\*      the most recent snapshot.
\*      The link is Connected while MAVLinkSender.sock is an open socket
\*      (connect() has logged "Connected to MAVProxy") and Disconnected
\*      otherwise.  Nothing is handed to the network while it is
\*      Disconnected; during start-up the reader thread, started before
\*      connect(), can take its next step in every state before the
\*      connection is made; every report carries the snapshot copied in its
\*      own iteration, one report per sector and iteration.
Disconnected == sock # "open"
AwaitingConnection == mpc = "connect"

Downloading == l_pc \in {"while", "recv"}
Listed == DOMAIN l_logs
WrittenCompletely(id) == l_file[id] >= l_logs[id]
Skipped(id) == id \in l_exists /\ l_file[id] = -1

C28_EraseAfterDownload ==
    /\ l_erased <= 1
    /\ Downloading => l_erased = 0
    /\ l_erased > 0 =>
          /\ Listed # {}
          /\ l_todo = <<>>
          /\ \A id \in Listed : WrittenCompletely(id) \/ Skipped(id)

\* the erase command was sent after one log was skipped and a log of 200
\* bytes was written in more than two chunks
C28_Witness ==
    /\ l_erased = 1
    /\ Listed = {1, 2}
    /\ Skipped(1)
    /\ l_logs[2] = 200 /\ l_file[2] = 200
    /\ l_noise = 0

\* ---------------------------------------------------------------------------
\* C29  When the header is found in the buffer with fewer than 19 bytes
\*      after it, the synchroniser discards nothing from the header onwards
\*      and emits no frame; once the remaining bytes have arrived in later
\*      reads, exactly that frame is emitted: the 19 bytes that start at that
\*      header.
IsPrefix(p, q) == Len(p) <= Len(q) /\ SubSeq(q, 1, Len(p)) = p
HeaderFound == Find(buffer) >= 0
BytesFromHeader == Drop(buffer, Find(buffer))
Held == held.bytes # <<>>

C29_PartialFrameKept ==
    /\ [][(rpc = "scan" /\ HeaderFound /\ Len(BytesFromHeader) < FRAME_LENGTH) =>
            /\ buffer' \in {buffer, BytesFromHeader}
            /\ emitted' = emitted /\ parsed_data' = parsed_data
            /\ decodes' = decodes
            /\ rpc' = "read"]_vars
    /\ [](Held =>
            /\ Len(held.bytes) < FRAME_LENGTH /\ HeaderOk(held.bytes)
            /\ IF Len(emitted) = held.n
               THEN IsPrefix(held.bytes, buffer)
               ELSE IsPrefix(held.bytes, emitted[held.n + 1]))

\* after 5 bytes of garbage the header and part of the frame were kept; the
\* rest arrived later and the frame of create_test_frame was extracted and
\* stored
C29_Witness ==
    /\ Held /\ held.n = 0
    /\ Len(scenario.prefix) = 5
    /\ emitted = <<TestFrame>>
    /\ buffer = <<>>
    /\ decodes = <<parse_frame(TestFrame)>>

\* ---------------------------------------------------------------------------
\* C30  Eventual synchronisation: once the radar sends valid frames back to
\*      back (no 0x54 0x48 inside a payload), from any starting misalignment
\*      and under every splitting of the stream into read chunks the reader
\*      decodes a frame and latest_data becomes non-empty.
\*      Here: when the reader has consumed the rest of a frame and two or
\*      more complete valid frames after it, a frame has been decoded.
\*      As stated this fails: reads that end on the header's first byte make
\*      every buffer a 19-byte block without a header, which is discarded
\*      whole.
C30_EventuallySynchronised ==
    (scenario.kind = "misaligned" /\ ReaderIdle) =>
        (decodes # <<>> /\ latest_data # EmptyDict)

\* ---------------------------------------------------------------------------
\* C31  The synchroniser's buffer is bounded: when the bytes of a read have
\*      been processed (the reader is back at its loop test or at the read)
\*      the buffer holds fewer than FRAME_LENGTH bytes, so it never holds
\*      more than FRAME_LENGTH - 1 + 64 bytes.
BetweenReads == rpc \in {"read", "ser"}

C31_BufferBounded ==
    /\ BetweenReads => Len(buffer) < FRAME_LENGTH
    /\ Len(buffer) <= FRAME_LENGTH - 1 + READ_SIZE

\* 18 bytes were kept and a read of 64 bytes was appended to them
C31_Witness ==
    /\ rpc = "scan"
    /\ Len(buffer) = FRAME_LENGTH - 1 + READ_SIZE

\* ---------------------------------------------------------------------------
\* C32  A candidate frame that parse_frame rejects (wrong header, or a last
\*      byte that is not the CRC-8 of the first 18 bytes) leaves latest_data
\*      unchanged: the snapshot only ever changes to the values of a frame
\*      that passed both checks.
PassesChecks(fr) == Len(fr) = FRAME_LENGTH /\ HeaderOk(fr) /\ CrcOk(fr)
LastEmitted == emitted[Len(emitted)]
Accepted == {k \in 1..Len(emitted) : PassesChecks(emitted[k])}
\* the reader has extracted a frame and not yet stored its values
Storing == rpc \in {"lock", "store"}

C32_RejectedLeavesSnapshot ==
    /\ [][emitted' # emitted =>
            /\ latest_data' = latest_data
            /\ ~PassesChecks(emitted'[Len(emitted')]) =>
                  (rpc' = "scan" /\ parsed_data' = NoneDict)]_vars
    /\ [][latest_data' # latest_data =>
            /\ emitted # <<>> /\ PassesChecks(LastEmitted)
            /\ latest_data' = ParseOf[LastEmitted]
            /\ latest_data' # NoneDict]_vars
    /\ [](Len(decodes) + (IF Storing THEN 1 ELSE 0) = Cardinality(Accepted))

\* the frame of create_test_frame was stored, then a block with a wrong CRC
\* byte was handed to parse_frame: the snapshot still holds the first frame
C32_Witness ==
    /\ emitted = <<TestFrame, BadFrame>>
    /\ ReaderIdle
    /\ latest_data = ParseOf[TestFrame]
    /\ decodes = <<ParseOf[TestFrame]>>

\* ---------------------------------------------------------------------------
\* C33  No sector report is derived from a 19-byte block whose first two
\*      bytes are not the header 0x54 0x48: in the loop of the minimal script
\*      such a block is discarded and produces no distance_sensor message.
C33_BadHeaderBlockSendsNothing ==
    [][(m_pc = "send" /\ ~HeaderOk(m_frame)) => m_sent' = m_sent]_vars

\* ---------------------------------------------------------------------------
\* C34  On every iteration of bridge_loop with a non-empty snapshot one
\*      OBSTACLE_DISTANCE message is built and handed to the socket,
\*      whichever of sector1, sector2, sector3 have readings: every header
\*      and payload field fits its wire width, so building it never fails.
C34_ObstacleMessageBuilt ==
    \A k \in 1..Len(calls) :
        calls[k].msg = "OBSTACLE_DISTANCE" => calls[k].outcome # "struct.error"

\* ---------------------------------------------------------------------------
\* C35  Once MR72MAVLinkBridge.stop has returned no further MAVLink message
\*      is transmitted, under every interleaving of stop with a sender
\*      iteration in progress, a send_message call that already passed its
\*      socket check included.
StopReturned == mpc = "stopped"

C35_NothingSentAfterStop == [][StopReturned => sent' = sent]_vars

\* stop has returned while a send_message call is between its socket check
\* and its sendto
C35_Witness ==
    /\ StopReturned
    /\ pending \in {"checked", "loaded"}
    /\ sent # <<>>

\* ---------------------------------------------------------------------------
\* C36  download_log writes a log's bytes in increasing offset order with no
\*      gap and no duplicate: a LOG_DATA message is written only if its id is
\*      the requested log id and its offset is the current offset, the offset
\*      then advances by the message's count, and duplicate, stale or
\*      out-of-order messages change neither the file nor the offset.
Foreign(m) == m = NoMsg \/ m.id # l_id \/ m.ofs # l_ofs
\* the writes of one log, in the order they were made
WritesOf(id) == SelectSeq(l_writes, LAMBDA w : w.id = id)
\* every write starts where the one before it ended, the first at 0
Contiguous(ws) ==
    \A k \in 1..Len(ws) :
        /\ ws[k].ofs = ws[k].at
        /\ ws[k].ofs = (IF k = 1 THEN 0 ELSE ws[k - 1].ofs + ws[k - 1].count)

C36_WritesInOrder ==
    /\ [](\A id \in LogIds : Contiguous(WritesOf(id)))
    /\ [](Downloading => l_file[l_id] = l_ofs)
    /\ [][(l_pc = "recv" /\ l_msg' # l_msg /\ Foreign(l_msg')) =>
            (l_file' = l_file /\ l_ofs' = l_ofs /\ l_writes' = l_writes)]_vars
    /\ [][l_writes' # l_writes =>
            /\ l_msg'.id = l_id /\ l_msg'.ofs = l_ofs
            /\ l_ofs' = l_ofs + l_msg'.count
            /\ l_file'[l_id] = l_file[l_id] + l_msg'.count]_vars

\* a log of several chunks was written after a foreign message had arrived
C36_Witness ==
    /\ l_noise < MaxNoise
    /\ \E id \in LogIds :
          /\ Len(WritesOf(id)) >= 3
          /\ l_file[id] = 200

\* ---------------------------------------------------------------------------
\* C37  crc8_calc covers every byte of its argument except the last: for any
\*      byte string d and byte c, crc8_calc(d + [c]) is the CRC-8 (polynomial
\*      0x31, initial value 0, MSB first) of d whatever c is, so a frame is
\*      accepted exactly when its last byte equals that value.

\* The CRC-8 by its definition: the message bits enter a shift register one
\* at a time, most significant bit first; when the bit shifted out differs
\* from the message bit, the polynomial x^8 + x^5 + x^4 + 1 is subtracted.
RegisterStep ==
    [reg \in Byte |-> [bit \in 0..1 |->
        LET shifted == (reg * 2) % 256
        IN  IF reg \div 128 # bit THEN BitXor(shifted, 49) ELSE shifted]]
\* the register after the k most significant bits of byte
RECURSIVE RegisterBits(_, _, _)
RegisterBits(reg, byte, k) ==
    IF k = 0 THEN reg
    ELSE RegisterStep[RegisterBits(reg, byte, k - 1)][(byte \div 2 ^ (8 - k)) % 2]
\* the register after one more byte, for every register and byte value
RegisterByte == [reg \in Byte |-> [byte \in Byte |-> RegisterBits(reg, byte, 8)]]
RECURSIVE RegisterBytes(_, _)
RegisterBytes(d, n) ==
    IF n = 0 THEN 0 ELSE RegisterByte[RegisterBytes(d, n - 1)][d[n]]
Crc8Of(d) == RegisterBytes(d, Len(d))

AllButLast(fr) == SubSeq(fr, 1, Len(fr) - 1)
\* the last bytes tried behind the frame's other bytes
ProbeBytes == {0, 1, 49, 128, 255}

StopActionDone == h_pc \in {"idle", "down"} /\ ~recording_running

C38_NoRecordingAfterStop ==
    StopActionDone =>
        /\ current_recording = None
        /\ Cardinality(started) = w_mark
        /\ started \subseteq released

====
